---- MODULE Spec2Model ----
(***************************************************************************)
(* A model of the object/element mapping engine of fastkml: the field      *)
(* codec helpers of fastkml/helpers.py and the Overlay family of           *)
(* fastkml/overlays.py (ViewVolume, ImagePyramid, LatLonBox, _Overlay,     *)
(* PhotoOverlay, GroundOverlay).                                           *)
(*                                                                         *)
(* Representation.                                                         *)
(*   - A Python Optional value is None (the empty tuple) or Some(v).       *)
(*   - A text is a sequence of one-character strings, so that strip(),     *)
(*     lower(), int() and float() are computed character by character.     *)
(*   - A qualified tag f"{ns}{node_name}" is the pair <<ns, node_name>>.   *)
(*   - An element is [tag, text, children]; text is an Optional text.      *)
(*   - A float is an integer number of tenths (15 is 1.5).                 *)
(*   - A call that may raise returns Ok(value) or Raise(kind, node).       *)
(***************************************************************************)
EXTENDS Integers, Sequences, FiniteSets, TLC

(* ------------------------------------------------------------------ *)
(* Bounds of the model                                                 *)
(* ------------------------------------------------------------------ *)

\* Longest text enumerated exhaustively over the small alphabet.
MaxTextLen == 3

(* ------------------------------------------------------------------ *)
(* Optional values, results                                            *)
(* ------------------------------------------------------------------ *)

None == <<>>

Some(v) == <<v>>

IsNone(o) == o = <<>>

Val(o) == o[1]

\* The empty mapping {} a reader returns.
EmptyKw == [k \in {} |-> TRUE]

Ok(v) == [ok |-> TRUE, val |-> v]

Raise(kind, node) == [ok |-> FALSE, err |-> [kind |-> kind, node |-> node]]

\* An error whose message ends with the serialized element.
RaiseIn(kind, node, element) ==
    [ok |-> FALSE, err |-> [kind |-> kind, node |-> node, element |-> element]]

(* ------------------------------------------------------------------ *)
(* Python str / int / float primitives over texts                      *)
(* ------------------------------------------------------------------ *)

Whitespace == {" ", "\t", "\n"}

Digits == {"0", "1", "2", "3", "4", "5", "6", "7", "8", "9"}

DigitVal == [c \in Digits |->
               CASE c = "0" -> 0 [] c = "1" -> 1 [] c = "2" -> 2 [] c = "3" -> 3
                 [] c = "4" -> 4 [] c = "5" -> 5 [] c = "6" -> 6 [] c = "7" -> 7
                 [] c = "8" -> 8 [] c = "9" -> 9]

DigitChar == <<"0", "1", "2", "3", "4", "5", "6", "7", "8", "9">>

UpperToLower ==
    ("A" :> "a") @@ ("B" :> "b") @@ ("C" :> "c") @@ ("D" :> "d") @@ ("E" :> "e") @@
    ("F" :> "f") @@ ("G" :> "g") @@ ("H" :> "h") @@ ("I" :> "i") @@ ("J" :> "j") @@
    ("K" :> "k") @@ ("L" :> "l") @@ ("M" :> "m") @@ ("N" :> "n") @@ ("O" :> "o") @@
    ("P" :> "p") @@ ("Q" :> "q") @@ ("R" :> "r") @@ ("S" :> "s") @@ ("T" :> "t") @@
    ("U" :> "u") @@ ("V" :> "v") @@ ("W" :> "w") @@ ("X" :> "x") @@ ("Y" :> "y") @@
    ("Z" :> "z")

\* str.lower() on one character of the model's alphabet.
LowerChar(c) == IF c \in DOMAIN UpperToLower THEN UpperToLower[c] ELSE c

\* str.lower()
StrLower(s) == [i \in 1..Len(s) |-> LowerChar(s[i])]

RECURSIVE LStrip(_)
LStrip(s) == IF s # <<>> /\ Head(s) \in Whitespace THEN LStrip(Tail(s)) ELSE s

RECURSIVE RStrip(_)
RStrip(s) == IF s # <<>> /\ s[Len(s)] \in Whitespace
               THEN RStrip(SubSeq(s, 1, Len(s) - 1))
               ELSE s

\* str.strip()
StrStrip(s) == RStrip(LStrip(s))

\* Truthiness of an Optional text: None and "" are falsy.
TruthyText(o) == ~IsNone(o) /\ Val(o) # <<>>

\* Truthiness of an Optional number: None and 0 are falsy.
TruthyNum(o) == ~IsNone(o) /\ Val(o) # 0

\* Truthiness of an Optional bool: None and False are falsy.
TruthyBool(o) == ~IsNone(o) /\ Val(o)

\* digit ("_"? digit)* : the digit part int() accepts.
IsDigitPart(s) ==
    /\ s # <<>>
    /\ s[1] \in Digits
    /\ s[Len(s)] \in Digits
    /\ \A i \in 1..Len(s) : s[i] \in Digits \cup {"_"}
    /\ \A i \in 1..(Len(s) - 1) : ~(s[i] = "_" /\ s[i + 1] = "_")

HasSign(s) == s # <<>> /\ s[1] \in {"+", "-"}

Unsigned(s) == IF HasSign(s) THEN Tail(s) ELSE s

\* The texts int() converts without raising ValueError.
IsIntLiteral(t) == IsDigitPart(Unsigned(StrStrip(t)))

RECURSIVE DigitsValue(_, _)
DigitsValue(s, acc) ==
    IF s = <<>> THEN acc
    ELSE IF Head(s) = "_" THEN DigitsValue(Tail(s), acc)
    ELSE DigitsValue(Tail(s), 10 * acc + DigitVal[Head(s)])

\* int(t) for an integer literal t.
IntValue(t) ==
    LET s == StrStrip(t)
        m == DigitsValue(Unsigned(s), 0)
    IN  IF HasSign(s) /\ s[1] = "-" THEN 0 - m ELSE m

\* int(t): the value, or ValueError.
PyInt(t) == IF IsIntLiteral(t) THEN Ok(IntValue(t)) ELSE Raise("ValueError", "")

RECURSIVE NatStr(_)
NatStr(n) == IF n < 10 THEN <<DigitChar[n + 1]>>
             ELSE NatStr(n \div 10) \o <<DigitChar[(n % 10) + 1]>>

\* str(n) for an int n.
IntStr(n) == IF n < 0 THEN <<"-">> \o NatStr(0 - n) ELSE NatStr(n)


\* "." digits: the fraction digits of a float text.
IsAllDigits(s) == \A i \in 1..Len(s) : s[i] \in Digits

\* Position of the first "." of s, or 0.
DotPos(s) == IF \E i \in 1..Len(s) : s[i] = "."
               THEN CHOOSE i \in 1..Len(s) : s[i] = "." /\ \A j \in 1..(i - 1) : s[j] # "."
               ELSE 0

\* digits [ "." digits ] | "." digits : the decimal texts float() accepts
\* (exponents, inf and nan are outside the model's alphabet).
IsDecimalPart(s) ==
    LET d == DotPos(s)
        ip == IF d = 0 THEN s ELSE SubSeq(s, 1, d - 1)
        fp == IF d = 0 THEN <<>> ELSE SubSeq(s, d + 1, Len(s))
    IN  /\ IsAllDigits(ip)
        /\ IsAllDigits(fp)
        /\ ip # <<>> \/ fp # <<>>

IsFloatLiteral(t) == IsDecimalPart(Unsigned(StrStrip(t)))

\* float(t) in tenths; digits after the first fraction digit are not held.
FloatValue(t) ==
    LET s == StrStrip(t)
        u == Unsigned(s)
        d == DotPos(u)
        ip == IF d = 0 THEN u ELSE SubSeq(u, 1, d - 1)
        fp == IF d = 0 THEN <<>> ELSE SubSeq(u, d + 1, Len(u))
        m == 10 * DigitsValue(ip, 0) + (IF fp = <<>> THEN 0 ELSE DigitVal[fp[1]])
    IN  IF HasSign(s) /\ s[1] = "-" THEN 0 - m ELSE m

Abs(n) == IF n < 0 THEN 0 - n ELSE n

\* str(v) for a float v held in tenths: "1.5", "10.0", "-0.5".
FloatRepr(v) ==
    (IF v < 0 THEN <<"-">> ELSE <<>>)
      \o NatStr(Abs(v) \div 10) \o <<".">> \o <<DigitChar[(Abs(v) % 10) + 1]>>

\* Round-half-even of |v| tenths to units, as format(v, ".0f") rounds.
RoundUnits(a) ==
    LET q == a \div 10
        r == a % 10
    IN  IF r > 5 \/ (r = 5 /\ q % 2 = 1) THEN q + 1 ELSE q

\* f"{v:.{p}f}" for a float v held in tenths.
FloatFixed(v, p) ==
    IF p = 0
      THEN (IF v < 0 /\ RoundUnits(Abs(v)) >= 0 THEN <<"-">> ELSE <<>>)
             \o NatStr(RoundUnits(Abs(v)))
      ELSE FloatRepr(v) \o [i \in 1..(p - 1) |-> "0"]

\* The text of a float under an Optional precision.
FloatText(v, precision) ==
    IF IsNone(precision) THEN FloatRepr(v) ELSE FloatFixed(v, Val(precision))

(* ------------------------------------------------------------------ *)
(* The Element capability (config.etree)                               *)
(* ------------------------------------------------------------------ *)

\* f"{ns}{node_name}"
QName(ns, node_name) == <<ns, node_name>>

\* etree.Element(tag): no text, no children.
NewElement(tag) == [tag |-> tag, text |-> None, children |-> <<>>]

\* element.append(child)
ElementAppend(element, child) ==
    [element EXCEPT !.children = Append(@, child)]

\* etree.SubElement(element, tag) followed by subelement.text = text.
SubElementText(element, tag, text) ==
    ElementAppend(element, [tag |-> tag, text |-> Some(text), children |-> <<>>])

\* element.find(tag): the first child with that tag, or None.
ElementFind(element, tag) ==
    LET hits == {i \in 1..Len(element.children) : element.children[i].tag = tag}
    IN  IF hits = {} THEN None
        ELSE Some(element.children[CHOOSE i \in hits : \A j \in hits : i <= j])

\* node.text and node.text.strip()
HasText(node) == ~IsNone(node.text) /\ Val(node.text) # <<>>
                   /\ StrStrip(Val(node.text)) # <<>>

\* getattr(obj, attr_name, None)
Getattr(obj, attr_name) ==
    IF attr_name \in DOMAIN obj THEN obj[attr_name] ELSE None

(* ------------------------------------------------------------------ *)
(* fastkml/helpers.py: the writers and readers present in the source   *)
(* ------------------------------------------------------------------ *)

simple_text_subelement(obj, element, attr_name, node_name) ==
    IF TruthyText(Getattr(obj, attr_name))
      THEN SubElementText(element, QName(obj.ns, node_name),
                          Val(Getattr(obj, attr_name)))
      ELSE element

\* A faulty writer: it writes str(True) in place of str(int(True)).
bool_subelement_str(obj, element, attr_name, node_name) ==
    IF ~IsNone(Getattr(obj, attr_name)) /\ Val(Getattr(obj, attr_name))
      THEN SubElementText(element, QName(obj.ns, node_name), <<"T", "r", "u", "e">>)
      ELSE element

\* A faulty writer, kept to show what the writer properties tell apart: it
\* tests the attribute against None, so that False is written as "0".
bool_subelement_not_none(obj, element, attr_name, node_name) ==
    IF ~IsNone(Getattr(obj, attr_name))
      THEN SubElementText(element, QName(obj.ns, node_name),
                          IntStr(IF Val(Getattr(obj, attr_name)) THEN 1 ELSE 0))
      ELSE element

bool_subelement(obj, element, attr_name, node_name) ==
    IF TruthyBool(Getattr(obj, attr_name))
      THEN SubElementText(element, QName(obj.ns, node_name),
                          IntStr(IF Val(Getattr(obj, attr_name)) THEN 1 ELSE 0))
      ELSE element

\* A faulty text reader: it returns the text with its surrounding whitespace.
subelement_text_kwarg_unstripped(element, ns, node_name, kwarg, strict) ==
    LET node == ElementFind(element, QName(ns, node_name))
    IN  IF IsNone(node) THEN Ok(EmptyKw)
        ELSE IF HasText(Val(node)) THEN Ok(kwarg :> Val(Val(node).text))
        ELSE Ok(EmptyKw)

subelement_text_kwarg(element, ns, node_name, kwarg, strict) ==
    LET node == ElementFind(element, QName(ns, node_name))
    IN  IF IsNone(node) THEN Ok(EmptyKw)
        ELSE IF HasText(Val(node))
          THEN Ok(kwarg :> StrStrip(Val(Val(node).text)))
          ELSE Ok(EmptyKw)

\* The lenient branch of the boolean reader.
LenientBool(text, kwarg) ==
    IF StrLower(text) \in {<<"1">>, <<"t", "r", "u", "e">>} THEN Ok(kwarg :> TRUE)
    ELSE IF StrLower(text) \in {<<"0">>, <<"f", "a", "l", "s", "e">>} THEN Ok(kwarg :> FALSE)
    ELSE Ok(EmptyKw)

\* A faulty boolean reader: it takes the lenient branch whatever the mode.
subelement_bool_kwarg_ignoring_strict(element, ns, node_name, kwarg, strict) ==
    LET node == ElementFind(element, QName(ns, node_name))
    IN  IF IsNone(node) THEN Ok(EmptyKw)
        ELSE IF HasText(Val(node))
          THEN LenientBool(StrStrip(Val(Val(node).text)), kwarg)
          ELSE Ok(EmptyKw)

\* A faulty boolean reader: its lenient branch compares the text as written,
\* without lowering its case.
subelement_bool_kwarg_case_sensitive(element, ns, node_name, kwarg, strict) ==
    LET node == ElementFind(element, QName(ns, node_name))
        text == StrStrip(Val(Val(node).text))
    IN  IF IsNone(node) THEN Ok(EmptyKw)
        ELSE IF HasText(Val(node))
          THEN IF strict
                 THEN IF PyInt(text).ok
                        THEN Ok(kwarg :> (PyInt(text).val # 0))
                        ELSE PyInt(text)
                 ELSE IF text \in {<<"1">>, <<"t", "r", "u", "e">>}
                        THEN Ok(kwarg :> TRUE)
                 ELSE IF text \in {<<"0">>, <<"f", "a", "l", "s", "e">>}
                        THEN Ok(kwarg :> FALSE)
                 ELSE Ok(EmptyKw)
          ELSE Ok(EmptyKw)

\* A faulty boolean reader: it tests node.text alone, so that a text of
\* whitespace reaches the conversion.
subelement_bool_kwarg_unstripped(element, ns, node_name, kwarg, strict) ==
    LET node == ElementFind(element, QName(ns, node_name))
        text == StrStrip(Val(Val(node).text))
    IN  IF IsNone(node) THEN Ok(EmptyKw)
        ELSE IF TruthyText(Val(node).text)
          THEN IF strict
                 THEN IF PyInt(text).ok
                        THEN Ok(kwarg :> (PyInt(text).val # 0))
                        ELSE PyInt(text)
                 ELSE LenientBool(text, kwarg)
          ELSE Ok(EmptyKw)

subelement_bool_kwarg(element, ns, node_name, kwarg, strict) ==
    LET node == ElementFind(element, QName(ns, node_name))
        text == StrStrip(Val(Val(node).text))
    IN  IF IsNone(node) THEN Ok(EmptyKw)
        ELSE IF HasText(Val(node))
          THEN IF strict
                 THEN IF PyInt(text).ok
                        THEN Ok(kwarg :> (PyInt(text).val # 0))
                        ELSE PyInt(text)
                 ELSE IF StrLower(text) \in {<<"1">>, <<"t", "r", "u", "e">>}
                        THEN Ok(kwarg :> TRUE)
                 ELSE IF StrLower(text) \in {<<"0">>, <<"f", "a", "l", "s", "e">>}
                        THEN Ok(kwarg :> FALSE)
                 ELSE Ok(EmptyKw)
          ELSE Ok(EmptyKw)


(* ------------------------------------------------------------------ *)
(* fastkml/enums.py: the enumerated value domains                      *)
(* An enumerated value is held as its canonical token.                 *)
(* ------------------------------------------------------------------ *)

Tok_clampToGround == <<"c", "l", "a", "m", "p", "T", "o", "G", "r", "o", "u", "n", "d">>

Tok_relativeToGround == <<"r", "e", "l", "a", "t", "i", "v", "e", "T", "o", "G", "r", "o", "u", "n", "d">>

Tok_absolute == <<"a", "b", "s", "o", "l", "u", "t", "e">>

Tok_clampToSeaFloor == <<"c", "l", "a", "m", "p", "T", "o", "S", "e", "a", "F", "l", "o", "o", "r">>

Tok_relativeToSeaFloor == <<"r", "e", "l", "a", "t", "i", "v", "e", "T", "o", "S", "e", "a", "F", "l", "o", "o", "r">>

Tok_lowerLeft == <<"l", "o", "w", "e", "r", "L", "e", "f", "t">>

Tok_upperLeft == <<"u", "p", "p", "e", "r", "L", "e", "f", "t">>

Tok_rectangle == <<"r", "e", "c", "t", "a", "n", "g", "l", "e">>

Tok_cylinder == <<"c", "y", "l", "i", "n", "d", "e", "r">>

Tok_sphere == <<"s", "p", "h", "e", "r", "e">>

AltitudeMode == {Tok_clampToGround, Tok_relativeToGround, Tok_absolute,
                 Tok_clampToSeaFloor, Tok_relativeToSeaFloor}

GridOrigin == {Tok_lowerLeft, Tok_upperLeft}

Shape == {Tok_rectangle, Tok_cylinder, Tok_sphere}

\* The token set of an enum class.
EnumTokens(enum_class) ==
    CASE enum_class = "AltitudeMode" -> AltitudeMode
      [] enum_class = "GridOrigin" -> GridOrigin
      [] enum_class = "Shape" -> Shape

\* An enum class that matches its tokens exactly, letter case included.
EnumFromToken_exact(enum_class, token) ==
    IF token \in EnumTokens(enum_class) THEN Ok(token)
    ELSE Raise("ValueError", "")

\* enum_class(token): the value whose token matches, or ValueError. The match
\* is made without regard to letter case: AltitudeMode("RELATIVETOGROUND") is
\* the value whose token is "relativeToGround".
EnumFromToken(enum_class, token) ==
    IF \E m \in EnumTokens(enum_class) : StrLower(m) = StrLower(token)
      THEN Ok(CHOOSE m \in EnumTokens(enum_class) : StrLower(m) = StrLower(token))
      ELSE Raise("ValueError", "")


(* ------------------------------------------------------------------ *)
(* fastkml/helpers.py: the helpers overlays.py imports that the        *)
(* source tree does not hold (section 4.1 of the specification)        *)
(* ------------------------------------------------------------------ *)

text_subelement(obj, element, attr_name, node_name) ==
    simple_text_subelement(obj, element, attr_name, node_name)

int_subelement(obj, element, attr_name, node_name) ==
    IF TruthyNum(Getattr(obj, attr_name))
      THEN SubElementText(element, QName(obj.ns, node_name),
                          IntStr(Val(Getattr(obj, attr_name))))
      ELSE element

float_subelement(obj, element, attr_name, node_name, precision) ==
    IF TruthyNum(Getattr(obj, attr_name))
      THEN SubElementText(element, QName(obj.ns, node_name),
                          FloatText(Val(Getattr(obj, attr_name)), precision))
      ELSE element

\* A str held by an attribute meant for an enum value. An enum value is
\* held as its token.
RawStr(text) == <<"str", text>>

IsRawStr(v) == Len(v) = 2 /\ v[1] = "str"

\* A faulty enum writer: it writes a str as it is.
enum_subelement_any_text(obj, element, attr_name, node_name) ==
    IF ~IsNone(Getattr(obj, attr_name))
      THEN SubElementText(element, QName(obj.ns, node_name),
                          IF IsRawStr(Val(Getattr(obj, attr_name)))
                            THEN Val(Getattr(obj, attr_name))[2]
                            ELSE Val(Getattr(obj, attr_name)))
      ELSE element

\* The text written is getattr(obj, attr_name).value: a str has no such
\* attribute, and the call raises AttributeError in place of returning.
enum_subelement(obj, element, attr_name, node_name) ==
    IF ~IsNone(Getattr(obj, attr_name))
      THEN IF IsRawStr(Val(Getattr(obj, attr_name)))
             THEN Raise("AttributeError", node_name)
             ELSE SubElementText(element, QName(obj.ns, node_name),
                                 Val(Getattr(obj, attr_name)))
      ELSE element

subelement_int_kwarg(element, ns, node_name, kwarg, strict) ==
    LET node == ElementFind(element, QName(ns, node_name))
        text == StrStrip(Val(Val(node).text))
    IN  IF IsNone(node) THEN Ok(EmptyKw)
        ELSE IF HasText(Val(node))
          THEN IF IsIntLiteral(text)
                 THEN Ok(kwarg :> IntValue(text))
                 ELSE Raise("KMLParseError", node_name)
          ELSE Ok(EmptyKw)

subelement_float_kwarg(element, ns, node_name, kwarg, strict) ==
    LET node == ElementFind(element, QName(ns, node_name))
        text == StrStrip(Val(Val(node).text))
    IN  IF IsNone(node) THEN Ok(EmptyKw)
        ELSE IF HasText(Val(node))
          THEN IF IsFloatLiteral(text)
                 THEN Ok(kwarg :> FloatValue(text))
                 ELSE Raise("KMLParseError", node_name)
          ELSE Ok(EmptyKw)

subelement_enum_kwarg(element, ns, node_name, kwarg, enum_class, strict) ==
    LET node == ElementFind(element, QName(ns, node_name))
        text == StrStrip(Val(Val(node).text))
    IN  IF IsNone(node) THEN Ok(EmptyKw)
        ELSE IF HasText(Val(node))
          THEN IF EnumFromToken(enum_class, text).ok
                 THEN Ok(kwarg :> EnumFromToken(enum_class, text).val)
                 ELSE IF strict THEN Raise("KMLParseError", node_name)
                 ELSE Ok(EmptyKw)
          ELSE Ok(EmptyKw)

(* ------------------------------------------------------------------ *)
(* fastkml/base.py: the base object (section 4.3 of the specification) *)
(* ------------------------------------------------------------------ *)

\* _XMLObject.etree_element: a new element tagged f"{ns}{tag name}".
XMLObject_etree_element(self, precision) ==
    NewElement(QName(self.ns, self.kind))

\* _XMLObject._get_kwargs: the namespace context of the call.
XMLObject_get_kwargs(ns, name_spaces, element, strict) ==
    Ok([ns |-> ns, name_spaces |-> name_spaces])

\* kwargs = super()._get_kwargs(...) followed by kwargs.update(reader(...)) for
\* each reader in turn: rs holds the results in call order. The first call that
\* raises ends the chain; otherwise a later mapping overrides an earlier one.
KwChain(rs) ==
    LET bad == {i \in DOMAIN rs : ~rs[i].ok}
        keys == UNION {DOMAIN rs[i].val : i \in DOMAIN rs}
        last(k) == CHOOSE i \in DOMAIN rs :
                     /\ k \in DOMAIN rs[i].val
                     /\ \A j \in DOMAIN rs : k \in DOMAIN rs[j].val => j <= i
    IN  IF bad # {}
          THEN rs[CHOOSE i \in bad : \A j \in bad : i <= j]
          ELSE Ok([k \in keys |-> rs[last(k)].val[k]])

\* A keyword argument of a constructor: its value, or the default None.
KwArg(kwargs, name) ==
    IF name \in DOMAIN kwargs THEN Some(kwargs[name]) ELSE None


(* ------------------------------------------------------------------ *)
(* fastkml/overlays.py: the compound records                           *)
(* ------------------------------------------------------------------ *)

\* ViewVolume.__init__ called with the keyword mapping kw.
ViewVolume_init(kw) ==
    [kind |-> "ViewVolume", ns |-> kw.ns, name_spaces |-> kw.name_spaces,
     left_fov |-> KwArg(kw, "left_fov"),
     right_fov |-> KwArg(kw, "right_fov"),
     bottom_fov |-> KwArg(kw, "bottom_fov"),
     top_fov |-> KwArg(kw, "top_fov"),
     near |-> KwArg(kw, "near")]

\* A faulty presence test: it asks for the truth of each field, so that a
\* field of 0 makes the record absent.
ViewVolume_bool_by_value(self) ==
    /\ TruthyNum(self.left_fov)
    /\ TruthyNum(self.right_fov)
    /\ TruthyNum(self.bottom_fov)
    /\ TruthyNum(self.top_fov)
    /\ TruthyNum(self.near)

\* ViewVolume.__bool__
ViewVolume_bool(self) ==
    /\ ~IsNone(self.left_fov)
    /\ ~IsNone(self.right_fov)
    /\ ~IsNone(self.bottom_fov)
    /\ ~IsNone(self.top_fov)
    /\ ~IsNone(self.near)

ViewVolume_etree_element(self, precision) ==
    LET e0 == XMLObject_etree_element(self, precision)
        e1 == float_subelement(self, e0, "left_fov", "leftFov", precision)
        e2 == float_subelement(self, e1, "right_fov", "rightFov", precision)
        e3 == float_subelement(self, e2, "bottom_fov", "bottomFov", precision)
        e4 == float_subelement(self, e3, "top_fov", "topFov", precision)
        e5 == float_subelement(self, e4, "near", "near", precision)
    IN  e5

ViewVolume_get_kwargs(ns, name_spaces, element, strict) ==
    KwChain(<<XMLObject_get_kwargs(ns, name_spaces, element, strict),
              subelement_float_kwarg(element, ns, "leftFov", "left_fov", strict),
              subelement_float_kwarg(element, ns, "rightFov", "right_fov", strict),
              subelement_float_kwarg(element, ns, "bottomFov", "bottom_fov", strict),
              subelement_float_kwarg(element, ns, "topFov", "top_fov", strict),
              subelement_float_kwarg(element, ns, "near", "near", strict),
              subelement_float_kwarg(element, ns, "near", "near", strict)>>)

\* ImagePyramid.__init__ called with the keyword mapping kw.
ImagePyramid_init(kw) ==
    [kind |-> "ImagePyramid", ns |-> kw.ns, name_spaces |-> kw.name_spaces,
     tile_size |-> KwArg(kw, "tile_size"),
     max_width |-> KwArg(kw, "max_width"),
     max_height |-> KwArg(kw, "max_height"),
     grid_origin |-> KwArg(kw, "grid_origin")]

\* ImagePyramid.__bool__
ImagePyramid_bool(self) ==
    /\ ~IsNone(self.tile_size)
    /\ ~IsNone(self.max_width)
    /\ ~IsNone(self.max_height)
    /\ ~IsNone(self.grid_origin)

ImagePyramid_etree_element(self, precision) ==
    LET e0 == XMLObject_etree_element(self, precision)
        e1 == int_subelement(self, e0, "tile_size", "tileSize")
        e2 == int_subelement(self, e1, "max_width", "maxWidth")
        e3 == int_subelement(self, e2, "max_height", "maxHeight")
        e4 == enum_subelement(self, e3, "grid_origin", "gridOrigin")
    IN  e4

ImagePyramid_get_kwargs(ns, name_spaces, element, strict) ==
    KwChain(<<XMLObject_get_kwargs(ns, name_spaces, element, strict),
              subelement_int_kwarg(element, ns, "tileSize", "tile_size", strict),
              subelement_int_kwarg(element, ns, "maxWidth", "max_width", strict),
              subelement_int_kwarg(element, ns, "maxHeight", "max_height", strict),
              subelement_enum_kwarg(element, ns, "gridOrigin", "grid_origin", "GridOrigin", strict)>>)

\* A constructor that checks its bounds: a latitude outside [-90, 90] or a
\* longitude or rotation outside [-180, 180] (in tenths) is not stored.
LatLonBox_init_checked(kw) ==
    LET within(name, limit) ==
          IF name \in DOMAIN kw /\ kw[name] >= 0 - limit /\ kw[name] <= limit
            THEN Some(kw[name]) ELSE None
    IN  [kind |-> "LatLonBox", ns |-> kw.ns, name_spaces |-> kw.name_spaces,
         north |-> within("north", 900),
         south |-> within("south", 900),
         east |-> within("east", 1800),
         west |-> within("west", 1800),
         rotation |-> within("rotation", 1800)]

\* LatLonBox.__init__ called with the keyword mapping kw.
LatLonBox_init(kw) ==
    [kind |-> "LatLonBox", ns |-> kw.ns, name_spaces |-> kw.name_spaces,
     north |-> KwArg(kw, "north"),
     south |-> KwArg(kw, "south"),
     east |-> KwArg(kw, "east"),
     west |-> KwArg(kw, "west"),
     rotation |-> KwArg(kw, "rotation")]

\* LatLonBox.__bool__
LatLonBox_bool(self) ==
    /\ ~IsNone(self.north)
    /\ ~IsNone(self.south)
    /\ ~IsNone(self.east)
    /\ ~IsNone(self.west)

LatLonBox_etree_element(self, precision) ==
    LET e0 == XMLObject_etree_element(self, precision)
        e1 == float_subelement(self, e0, "north", "north", precision)
        e2 == float_subelement(self, e1, "south", "south", precision)
        e3 == float_subelement(self, e2, "east", "east", precision)
        e4 == float_subelement(self, e3, "west", "west", precision)
        e5 == float_subelement(self, e4, "rotation", "rotation", precision)
    IN  e5

LatLonBox_get_kwargs(ns, name_spaces, element, strict) ==
    KwChain(<<XMLObject_get_kwargs(ns, name_spaces, element, strict),
              subelement_float_kwarg(element, ns, "north", "north", strict),
              subelement_float_kwarg(element, ns, "south", "south", strict),
              subelement_float_kwarg(element, ns, "east", "east", strict),
              subelement_float_kwarg(element, ns, "west", "west", strict),
              subelement_float_kwarg(element, ns, "rotation", "rotation", strict)>>)

(* ------------------------------------------------------------------ *)
(* fastkml/links.py: Icon, held as its href (not in the source tree)   *)
(* ------------------------------------------------------------------ *)

\* Icon.__init__ called with the keyword mapping kw.
Icon_init(kw) ==
    [kind |-> "Icon", ns |-> kw.ns, name_spaces |-> kw.name_spaces,
     href |-> KwArg(kw, "href")]

Icon_etree_element(self, precision) ==
    LET e0 == XMLObject_etree_element(self, precision)
        e1 == text_subelement(self, e0, "href", "href")
    IN  e1

Icon_get_kwargs(ns, name_spaces, element, strict) ==
    KwChain(<<XMLObject_get_kwargs(ns, name_spaces, element, strict),
              subelement_text_kwarg(element, ns, "href", "href", strict)>>)

\* Icon.__bool__: an icon without href is not emitted.
Icon_bool(self) == TruthyText(self.href)

(* ------------------------------------------------------------------ *)
(* fastkml/geometry.py: Point, held as its altitude mode and its        *)
(* coordinates (not in the source tree; tests/geometries/point_test.py) *)
(* ------------------------------------------------------------------ *)

\* The digits of a coordinate written without a precision: f"{c:f}".
CoordDigits == 6

\* text.split(sep)
RECURSIVE StrSplit(_, _)
StrSplit(text, sep) ==
    IF \A i \in 1..Len(text) : text[i] # sep THEN <<text>>
    ELSE LET k == CHOOSE i \in 1..Len(text) :
                    text[i] = sep /\ \A j \in 1..(i - 1) : text[j] # sep
         IN  <<SubSeq(text, 1, k - 1)>> \o StrSplit(SubSeq(text, k + 1, Len(text)), sep)

\* ",".join(parts)
RECURSIVE StrJoin(_)
StrJoin(parts) ==
    IF Len(parts) = 0 THEN <<>>
    ELSE IF Len(parts) = 1 THEN parts[1]
    ELSE parts[1] \o <<",">> \o StrJoin(Tail(parts))

\* The text of the coordinates child: each component with a fixed number of
\* fraction digits, "1.000000,2.000000" for the point (1, 2).
CoordText(geometry, precision) ==
    StrJoin([i \in 1..Len(geometry) |->
               FloatFixed(geometry[i], IF IsNone(precision) THEN CoordDigits
                                       ELSE Val(precision))])

\* Point.__init__ called with the keyword mapping kw (extrude and tessellate
\* are not held).
Point_init(kw) ==
    [kind |-> "Point", ns |-> kw.ns, name_spaces |-> kw.name_spaces,
     altitude_mode |-> KwArg(kw, "altitude_mode"),
     geometry |-> KwArg(kw, "geometry")]

\* Point.__bool__: a point without geometry is not emitted.
Point_bool(self) == ~IsNone(self.geometry)

\* Point.etree_element: altitudeMode, then coordinates.
Point_etree_element(self, precision) ==
    LET e0 == XMLObject_etree_element(self, precision)
        e1 == enum_subelement(self, e0, "altitude_mode", "altitudeMode")
        e2 == IF IsNone(self.geometry) THEN e1
              ELSE SubElementText(e1, QName(self.ns, "coordinates"),
                                  CoordText(Val(self.geometry), precision))
    IN  e2

\* A faulty geometry reader: it never raises.
Point_get_geometry_forgiving(ns, element, strict) ==
    LET node == ElementFind(element, QName(ns, "coordinates"))
        parts == StrSplit(StrStrip(Val(Val(node).text)), ",")
        valid == /\ ~IsNone(node) /\ HasText(Val(node))
                 /\ Len(parts) \in {2, 3}
                 /\ \A i \in 1..Len(parts) : IsFloatLiteral(parts[i])
    IN  IF valid THEN Ok("geometry" :> [i \in 1..Len(parts) |-> FloatValue(parts[i])])
        ELSE Ok(EmptyKw)

\* The coordinates of a Point element: 2 or 3 numbers separated by commas.
\* Anything else is an error in strict mode ("Invalid coordinates in" and the
\* serialized Point element) and no geometry in lenient mode.
Point_get_geometry(ns, element, strict) ==
    LET node == ElementFind(element, QName(ns, "coordinates"))
        parts == StrSplit(StrStrip(Val(Val(node).text)), ",")
        valid == /\ ~IsNone(node) /\ HasText(Val(node))
                 /\ Len(parts) \in {2, 3}
                 /\ \A i \in 1..Len(parts) : IsFloatLiteral(parts[i])
    IN  IF valid THEN Ok("geometry" :> [i \in 1..Len(parts) |-> FloatValue(parts[i])])
        ELSE IF strict THEN RaiseIn("KMLParseError", "coordinates", element)
        ELSE Ok(EmptyKw)

\* A faulty Point reader: it takes the altitudeMode only when its text is a
\* token of the domain letter for letter.
Point_get_kwargs_exact_mode(ns, name_spaces, element, strict) ==
    LET node == ElementFind(element, QName(ns, "altitudeMode"))
        exact == ~IsNone(node) /\ HasText(Val(node))
                   => StrStrip(Val(Val(node).text)) \in AltitudeMode
    IN  IF exact
          THEN KwChain(<<XMLObject_get_kwargs(ns, name_spaces, element, strict),
                         subelement_enum_kwarg(element, ns, "altitudeMode", "altitude_mode",
                                               "AltitudeMode", strict),
                         Point_get_geometry(ns, element, strict)>>)
        ELSE IF strict THEN Raise("KMLParseError", "altitudeMode")
        ELSE KwChain(<<XMLObject_get_kwargs(ns, name_spaces, element, strict),
                       Point_get_geometry(ns, element, strict)>>)

Point_get_kwargs(ns, name_spaces, element, strict) ==
    KwChain(<<XMLObject_get_kwargs(ns, name_spaces, element, strict),
              subelement_enum_kwarg(element, ns, "altitudeMode", "altitude_mode", "AltitudeMode", strict),
              Point_get_geometry(ns, element, strict)>>)

(* ------------------------------------------------------------------ *)
(* Dispatch on the class of a nested object                            *)
(* ------------------------------------------------------------------ *)

\* bool(obj) for a nested object.
Obj_bool(obj) ==
    CASE obj.kind = "ViewVolume" -> ViewVolume_bool(obj)
      [] obj.kind = "ImagePyramid" -> ImagePyramid_bool(obj)
      [] obj.kind = "LatLonBox" -> LatLonBox_bool(obj)
      [] obj.kind = "Icon" -> Icon_bool(obj)
      [] obj.kind = "Point" -> Point_bool(obj)

\* obj.etree_element(precision) for a nested object.
Obj_etree_element(obj, precision) ==
    CASE obj.kind = "ViewVolume" -> ViewVolume_etree_element(obj, precision)
      [] obj.kind = "ImagePyramid" -> ImagePyramid_etree_element(obj, precision)
      [] obj.kind = "LatLonBox" -> LatLonBox_etree_element(obj, precision)
      [] obj.kind = "Icon" -> Icon_etree_element(obj, precision)
      [] obj.kind = "Point" -> Point_etree_element(obj, precision)

\* obj_class.get_tag_name()
get_tag_name(obj_class) == obj_class

\* obj_class._get_kwargs(ns, name_spaces, element, strict)
get_kwargs(obj_class, ns, name_spaces, element, strict) ==
    CASE obj_class = "ViewVolume" ->
           ViewVolume_get_kwargs(ns, name_spaces, element, strict)
      [] obj_class = "ImagePyramid" ->
           ImagePyramid_get_kwargs(ns, name_spaces, element, strict)
      [] obj_class = "LatLonBox" ->
           LatLonBox_get_kwargs(ns, name_spaces, element, strict)
      [] obj_class = "Icon" ->
           Icon_get_kwargs(ns, name_spaces, element, strict)
      [] obj_class = "Point" ->
           Point_get_kwargs(ns, name_spaces, element, strict)

\* obj_class(**kwargs), unless _get_kwargs raised.
Construct(obj_class, kwargs) ==
    IF ~kwargs.ok THEN kwargs
    ELSE CASE obj_class = "ViewVolume" -> Ok(ViewVolume_init(kwargs.val))
           [] obj_class = "ImagePyramid" -> Ok(ImagePyramid_init(kwargs.val))
           [] obj_class = "LatLonBox" -> Ok(LatLonBox_init(kwargs.val))
           [] obj_class = "Icon" -> Ok(Icon_init(kwargs.val))
           [] obj_class = "Point" -> Ok(Point_init(kwargs.val))

\* obj_class.class_from_element(ns, name_spaces, element, strict):
\* obj_class(**obj_class._get_kwargs(...)).
class_from_element(obj_class, ns, name_spaces, element, strict) ==
    Construct(obj_class, get_kwargs(obj_class, ns, name_spaces, element, strict))

\* The precision a nested etree_element() called without arguments gets.
DefaultPrecision == None

\* helpers.xml_subelement: the body appends getattr(obj, attr_name)
\* .etree_element() called without arguments, so the precision and verbosity
\* the callers in overlays.py name are not handed on to the nested record.
xml_subelement(obj, element, attr_name) ==
    IF ~IsNone(Getattr(obj, attr_name)) /\ Obj_bool(Val(Getattr(obj, attr_name)))
      THEN ElementAppend(element,
             Obj_etree_element(Val(Getattr(obj, attr_name)), DefaultPrecision))
      ELSE element

\* {kwarg: child}, unless building the child raised.
KwOf(kwarg, child) ==
    IF child.ok THEN Ok(kwarg :> child.val) ELSE child

\* A faulty nested-entity reader: in strict mode it takes a missing child for
\* an error.
xml_subelement_kwarg_required(element, ns, name_spaces, kwarg, obj_class, strict) ==
    LET subelement == ElementFind(element, QName(ns, get_tag_name(obj_class)))
    IN  IF IsNone(subelement)
          THEN IF strict THEN Raise("KMLParseError", get_tag_name(obj_class))
               ELSE Ok(EmptyKw)
        ELSE KwOf(kwarg, class_from_element(obj_class, ns, name_spaces,
                                            Val(subelement), strict))

\* A faulty nested-entity reader: it builds the child in lenient mode whatever
\* mode it was called in.
xml_subelement_kwarg_lenient_child(element, ns, name_spaces, kwarg, obj_class, strict) ==
    LET subelement == ElementFind(element, QName(ns, get_tag_name(obj_class)))
    IN  IF IsNone(subelement) THEN Ok(EmptyKw)
        ELSE KwOf(kwarg, class_from_element(obj_class, ns, name_spaces,
                                            Val(subelement), FALSE))

\* A faulty nested-entity reader: it finds the child under any namespace.
xml_subelement_kwarg_any_ns(element, ns, name_spaces, kwarg, obj_class, strict) ==
    LET found == {i \in 1..Len(element.children) :
                    element.children[i].tag[2] = get_tag_name(obj_class)}
        subelement == element.children[CHOOSE i \in found : \A j \in found : i <= j]
    IN  IF found = {} THEN Ok(EmptyKw)
        ELSE KwOf(kwarg, class_from_element(obj_class, subelement.tag[1], name_spaces,
                                            subelement, strict))

\* A faulty nested-entity reader: it drops a record that misses a required
\* field.
xml_subelement_kwarg_present_only(element, ns, name_spaces, kwarg, obj_class, strict) ==
    LET subelement == ElementFind(element, QName(ns, get_tag_name(obj_class)))
        child == class_from_element(obj_class, ns, name_spaces, Val(subelement), strict)
    IN  IF IsNone(subelement) THEN Ok(EmptyKw)
        ELSE IF child.ok /\ ~Obj_bool(child.val) THEN Ok(EmptyKw)
        ELSE KwOf(kwarg, child)

\* A faulty nested-entity reader: it drops a child that cannot be built.
xml_subelement_kwarg_swallowing(element, ns, name_spaces, kwarg, obj_class, strict) ==
    LET subelement == ElementFind(element, QName(ns, get_tag_name(obj_class)))
        child == class_from_element(obj_class, ns, name_spaces, Val(subelement), strict)
    IN  IF IsNone(subelement) THEN Ok(EmptyKw)
        ELSE IF child.ok THEN KwOf(kwarg, child) ELSE Ok(EmptyKw)

xml_subelement_kwarg(element, ns, name_spaces, kwarg, obj_class, strict) ==
    LET subelement == ElementFind(element, QName(ns, get_tag_name(obj_class)))
    IN  IF IsNone(subelement) THEN Ok(EmptyKw)
        ELSE KwOf(kwarg, class_from_element(obj_class, ns, name_spaces,
                                            Val(subelement), strict))

(* ------------------------------------------------------------------ *)
(* fastkml/features.py: _Feature, held as its name attribute           *)
(* (not in the source tree; stands for the inherited attributes)       *)
(* ------------------------------------------------------------------ *)

Feature_etree_element(self, precision) ==
    LET e0 == XMLObject_etree_element(self, precision)
        e1 == text_subelement(self, e0, "name", "name")
    IN  e1

Feature_get_kwargs(ns, name_spaces, element, strict) ==
    KwChain(<<XMLObject_get_kwargs(ns, name_spaces, element, strict),
              subelement_text_kwarg(element, ns, "name", "name", strict)>>)

(* ------------------------------------------------------------------ *)
(* fastkml/overlays.py: _Overlay, PhotoOverlay, GroundOverlay          *)
(* ------------------------------------------------------------------ *)

Overlay_etree_element(self, precision) ==
    LET e0 == Feature_etree_element(self, precision)
        e1 == text_subelement(self, e0, "color", "color")
        e2 == int_subelement(self, e1, "draw_order", "drawOrder")
        e3 == xml_subelement(self, e2, "icon")
    IN  e3

\* A faulty Overlay reader: it looks drawOrder up under the dialect's
\* namespace, whatever ns it was called with.
Overlay_get_kwargs_default_ns(ns, name_spaces, element, strict) ==
    KwChain(<<Feature_get_kwargs(ns, name_spaces, element, strict),
              subelement_text_kwarg(element, ns, "color", "color", strict),
              subelement_int_kwarg(element, "{kml}", "drawOrder", "draw_order", strict),
              xml_subelement_kwarg(element, ns, name_spaces, "icon", "Icon", strict)>>)

Overlay_get_kwargs(ns, name_spaces, element, strict) ==
    KwChain(<<Feature_get_kwargs(ns, name_spaces, element, strict),
              subelement_text_kwarg(element, ns, "color", "color", strict),
              subelement_int_kwarg(element, ns, "drawOrder", "draw_order", strict),
              xml_subelement_kwarg(element, ns, name_spaces, "icon", "Icon", strict)>>)

\* PhotoOverlay.__init__ called with the keyword mapping kw.
PhotoOverlay_init(kw) ==
    [kind |-> "PhotoOverlay", ns |-> kw.ns, name_spaces |-> kw.name_spaces,
     name |-> KwArg(kw, "name"),
     color |-> KwArg(kw, "color"),
     draw_order |-> KwArg(kw, "draw_order"),
     icon |-> KwArg(kw, "icon"),
     rotation |-> KwArg(kw, "rotation"),
     view_volume |-> KwArg(kw, "view_volume"),
     image_pyramid |-> KwArg(kw, "image_pyramid"),
     point |-> KwArg(kw, "point"),
     shape |-> KwArg(kw, "shape")]

\* A faulty PhotoOverlay writer: it writes shape before the nested records.
PhotoOverlay_etree_element_shape_first(self, precision) ==
    LET e0 == Overlay_etree_element(self, precision)
        e1 == float_subelement(self, e0, "rotation", "rotation", precision)
        e2 == enum_subelement(self, e1, "shape", "shape")
        e3 == xml_subelement(self, e2, "view_volume")
        e4 == xml_subelement(self, e3, "image_pyramid")
        e5 == xml_subelement(self, e4, "point")
    IN  e5

PhotoOverlay_etree_element(self, precision) ==
    LET e0 == Overlay_etree_element(self, precision)
        e1 == float_subelement(self, e0, "rotation", "rotation", precision)
        e2 == xml_subelement(self, e1, "view_volume")
        e3 == xml_subelement(self, e2, "image_pyramid")
        e4 == xml_subelement(self, e3, "point")
        e5 == enum_subelement(self, e4, "shape", "shape")
    IN  e5

\* A faulty PhotoOverlay reader: it takes the text of the shape child as the
\* shape, whatever it says.
PhotoOverlay_get_kwargs_any_shape(ns, name_spaces, element, strict) ==
    KwChain(<<Overlay_get_kwargs(ns, name_spaces, element, strict),
              subelement_float_kwarg(element, ns, "rotation", "rotation", strict),
              xml_subelement_kwarg(element, ns, name_spaces, "view_volume", "ViewVolume", strict),
              xml_subelement_kwarg(element, ns, name_spaces, "image_pyramid", "ImagePyramid", strict),
              xml_subelement_kwarg(element, ns, name_spaces, "point", "Point", strict),
              subelement_text_kwarg(element, ns, "shape", "shape", strict)>>)

PhotoOverlay_get_kwargs(ns, name_spaces, element, strict) ==
    KwChain(<<Overlay_get_kwargs(ns, name_spaces, element, strict),
              subelement_float_kwarg(element, ns, "rotation", "rotation", strict),
              xml_subelement_kwarg(element, ns, name_spaces, "view_volume", "ViewVolume", strict),
              xml_subelement_kwarg(element, ns, name_spaces, "image_pyramid", "ImagePyramid", strict),
              xml_subelement_kwarg(element, ns, name_spaces, "point", "Point", strict),
              subelement_enum_kwarg(element, ns, "shape", "shape", "Shape", strict)>>)

\* GroundOverlay.__init__ called with the keyword mapping kw.
GroundOverlay_init(kw) ==
    [kind |-> "GroundOverlay", ns |-> kw.ns, name_spaces |-> kw.name_spaces,
     name |-> KwArg(kw, "name"),
     color |-> KwArg(kw, "color"),
     draw_order |-> KwArg(kw, "draw_order"),
     icon |-> KwArg(kw, "icon"),
     altitude |-> KwArg(kw, "altitude"),
     altitude_mode |-> KwArg(kw, "altitude_mode"),
     lat_lon_box |-> KwArg(kw, "lat_lon_box")]

\* A faulty GroundOverlay writer: it writes its own children before the
\* inherited ones.
GroundOverlay_etree_element_own_first(self, precision) ==
    LET e0 == XMLObject_etree_element(self, precision)
        e1 == float_subelement(self, e0, "altitude", "altitude", precision)
        e2 == enum_subelement(self, e1, "altitude_mode", "altitudeMode")
        e3 == xml_subelement(self, e2, "lat_lon_box")
        e4 == text_subelement(self, e3, "name", "name")
        e5 == text_subelement(self, e4, "color", "color")
        e6 == int_subelement(self, e5, "draw_order", "drawOrder")
        e7 == xml_subelement(self, e6, "icon")
    IN  e7

GroundOverlay_etree_element(self, precision) ==
    LET e0 == Overlay_etree_element(self, precision)
        e1 == float_subelement(self, e0, "altitude", "altitude", precision)
        e2 == enum_subelement(self, e1, "altitude_mode", "altitudeMode")
        e3 == xml_subelement(self, e2, "lat_lon_box")
    IN  e3

\* The result of a reader with its failure dropped in lenient mode.
Forgiving(r, strict) == IF strict \/ r.ok THEN r ELSE Ok(EmptyKw)

\* A faulty GroundOverlay reader: in lenient mode it drops an altitude and a
\* LatLonBox that do not parse.
GroundOverlay_get_kwargs_forgiving(ns, name_spaces, element, strict) ==
    KwChain(<<Overlay_get_kwargs(ns, name_spaces, element, strict),
              Forgiving(subelement_float_kwarg(element, ns, "altitude", "altitude", strict), strict),
              subelement_enum_kwarg(element, ns, "altitudeMode", "altitude_mode", "AltitudeMode", strict),
              Forgiving(xml_subelement_kwarg(element, ns, name_spaces, "lat_lon_box", "LatLonBox", strict), strict)>>)

GroundOverlay_get_kwargs(ns, name_spaces, element, strict) ==
    KwChain(<<Overlay_get_kwargs(ns, name_spaces, element, strict),
              subelement_float_kwarg(element, ns, "altitude", "altitude", strict),
              subelement_enum_kwarg(element, ns, "altitudeMode", "altitude_mode", "AltitudeMode", strict),
              xml_subelement_kwarg(element, ns, name_spaces, "lat_lon_box", "LatLonBox", strict)>>)

\* self.etree_element(precision) for an entity of any modelled kind.
ToElement(self, precision) ==
    CASE self.kind = "PhotoOverlay" -> PhotoOverlay_etree_element(self, precision)
      [] self.kind = "GroundOverlay" -> GroundOverlay_etree_element(self, precision)
      [] OTHER -> Obj_etree_element(self, precision)

\* cls(**kwargs) for an overlay class, unless _get_kwargs raised.
ConstructOverlay(cls, kwargs) ==
    IF ~kwargs.ok THEN kwargs
    ELSE CASE cls = "PhotoOverlay" -> Ok(PhotoOverlay_init(kwargs.val))
           [] cls = "GroundOverlay" -> Ok(GroundOverlay_init(kwargs.val))

\* cls.class_from_element(ns, name_spaces, element, strict) for any modelled kind.
FromElement(cls, ns, name_spaces, element, strict) ==
    CASE cls = "PhotoOverlay" ->
           ConstructOverlay(cls, PhotoOverlay_get_kwargs(ns, name_spaces, element, strict))
      [] cls = "GroundOverlay" ->
           ConstructOverlay(cls, GroundOverlay_get_kwargs(ns, name_spaces, element, strict))
      [] OTHER -> class_from_element(cls, ns, name_spaces, element, strict)

(* ------------------------------------------------------------------ *)
(* The values the model draws its inputs from                          *)
(* ------------------------------------------------------------------ *)

\* The namespace prefix of the dialect.
KMLNS == "{kml}"

\* Namespace prefixes: the dialect's, another one, and the empty prefix.
NS == {KMLNS, "{gx}", ""}

\* The alias -> URI mapping handed through every call.
NameSpaces == [kml |-> KMLNS]

\* Optional floats in tenths: unset, 0.0, 1.5.
OptFloat == {None, Some(0), Some(15)}

\* Optional ints.
OptInt == {None, Some(0), Some(3)}

T_ff == <<"f", "f", "0", "0", "0", "0", "f", "f">>

T_n == <<"n">>

T_url == <<"u">>

\* Optional texts of an attribute: unset, empty, plain, padded, blank.
OptText == {None, Some(<<>>), Some(T_ff), Some(<<" ", "f">>), Some(<<" ">>)}

OptBool == {None, Some(TRUE), Some(FALSE)}

XMLObject(kind, ns) == [kind |-> kind, ns |-> ns, name_spaces |-> NameSpaces]

ViewVolumes(nss) ==
    {XMLObject("ViewVolume", n) @@
       [left_fov |-> a, right_fov |-> b, bottom_fov |-> c, top_fov |-> d, near |-> e] :
       n \in nss, a \in OptFloat, b \in OptFloat, c \in OptFloat,
       d \in OptFloat, e \in OptFloat}

ImagePyramids(nss) ==
    {XMLObject("ImagePyramid", n) @@
       [tile_size |-> a, max_width |-> b, max_height |-> c, grid_origin |-> g] :
       n \in nss, a \in {None, Some(0), Some(256)}, b \in OptInt, c \in OptInt,
       g \in {None, Some(Tok_lowerLeft), Some(Tok_upperLeft)}}

LatLonBoxes(nss) ==
    {XMLObject("LatLonBox", n) @@
       [north |-> a, south |-> b, east |-> c, west |-> d, rotation |-> e] :
       n \in nss, a \in OptFloat, b \in OptFloat, c \in OptFloat,
       d \in OptFloat, e \in OptFloat}

Icons(nss) == {XMLObject("Icon", n) @@ [href |-> Some(T_url)] : n \in nss}

\* Points: with or without an altitude mode, with or without the geometry
\* (1, 2).
Points(nss) ==
    {XMLObject("Point", n) @@ [altitude_mode |-> m, geometry |-> g] :
       n \in nss, m \in {None, Some(Tok_relativeToGround)},
       g \in {None, Some(<<10, 20>>)}}

\* The float and int attributes of a record that are unset or zero.
Plain(rec) == {f \in DOMAIN rec \ {"kind", "ns", "name_spaces", "grid_origin"} :
                 ~TruthyNum(rec[f])}

\* Nested records handed to an overlay: at most one attribute unset or zero.
Nested(recs) == {r \in recs : Cardinality(Plain(r)) <= 1
                                /\ ("grid_origin" \in DOMAIN r => r.grid_origin # Some(Tok_upperLeft))}

GroundOverlays ==
    {XMLObject("GroundOverlay", KMLNS) @@
       [name |-> nm, color |-> c, draw_order |-> d, icon |-> i,
        altitude |-> a, altitude_mode |-> m, lat_lon_box |-> b] :
       nm \in {None, Some(T_n)}, c \in {None, Some(T_ff)}, d \in OptInt,
       i \in {None} \cup {Some(x) : x \in Icons({KMLNS})},
       a \in OptFloat, m \in {None, Some(Tok_absolute)},
       b \in {None} \cup {Some(x) : x \in Nested(LatLonBoxes({KMLNS}))}}

PhotoOverlays ==
    {XMLObject("PhotoOverlay", KMLNS) @@
       [name |-> None, color |-> ov[1], draw_order |-> ov[2], icon |-> None,
        rotation |-> r, view_volume |-> v, image_pyramid |-> ip,
        point |-> pt, shape |-> sh] :
       ov \in {<<None, None>>, <<Some(T_ff), Some(3)>>},
       pt \in {None} \cup {Some(x) : x \in {p \in Points({KMLNS}) :
                                              IsNone(p.altitude_mode) /\ ~IsNone(p.geometry)}},
       r \in {None, Some(15)},
       v \in {None} \cup {Some(x) : x \in Nested(ViewVolumes({KMLNS}))},
       ip \in {None} \cup {Some(x) : x \in Nested(ImagePyramids({KMLNS}))},
       sh \in {None, Some(Tok_sphere)}}

\* Overlays of either namespace whose nested record, with every field set, is
\* of either namespace.
MixedOverlays ==
    {XMLObject("GroundOverlay", x) @@
       [name |-> Some(T_n), color |-> Some(T_ff), draw_order |-> Some(3), icon |-> None,
        altitude |-> Some(15), altitude_mode |-> Some(Tok_absolute),
        lat_lon_box |-> Some(XMLObject("LatLonBox", y) @@
                               [north |-> Some(15), south |-> Some(15), east |-> Some(15),
                                west |-> Some(15), rotation |-> Some(15)])] :
       x \in {KMLNS, "{gx}"}, y \in {KMLNS, "{gx}"}}
      \cup
    {XMLObject("PhotoOverlay", x) @@
       [name |-> None, color |-> Some(T_ff), draw_order |-> Some(3), icon |-> None,
        rotation |-> Some(15),
        view_volume |-> Some(XMLObject("ViewVolume", y) @@
                               [left_fov |-> Some(15), right_fov |-> Some(15),
                                bottom_fov |-> Some(15), top_fov |-> Some(15),
                                near |-> Some(15)]),
        image_pyramid |-> Some(XMLObject("ImagePyramid", y) @@
                                 [tile_size |-> Some(256), max_width |-> Some(3),
                                  max_height |-> Some(3),
                                  grid_origin |-> Some(Tok_lowerLeft)]),
        point |-> None, shape |-> Some(Tok_sphere)] :
       x \in {KMLNS, "{gx}"}, y \in {KMLNS, "{gx}"}}

\* The entities a behaviour may start from.
Entities ==
    ViewVolumes({KMLNS}) \cup ImagePyramids({KMLNS}) \cup LatLonBoxes({KMLNS})
      \cup GroundOverlays \cup PhotoOverlays \cup MixedOverlays


Leaf(ns, node_name, text) ==
    [tag |-> QName(ns, node_name), text |-> Some(text), children |-> <<>>]

T_abc == <<"a", "b", "c">>

T_bogus == <<"b", "o", "g", "u", "s">>

\* The GroundOverlay element of the scenario of section 8, with the texts of
\* drawOrder, altitude, altitudeMode and north as parameters.
ScenarioElement(draw_order, altitude, altitude_mode, north) ==
    [tag |-> QName(KMLNS, "GroundOverlay"), text |-> None,
     children |->
       <<Leaf(KMLNS, "color", T_ff),
         Leaf(KMLNS, "drawOrder", draw_order),
         Leaf(KMLNS, "altitude", altitude),
         Leaf(KMLNS, "altitudeMode", altitude_mode),
         [tag |-> QName(KMLNS, "LatLonBox"), text |-> None,
          children |->
            <<Leaf(KMLNS, "north", north),
              Leaf(KMLNS, "south", <<"0">>),
              Leaf(KMLNS, "east", <<"1", "0">>),
              Leaf(KMLNS, "west", <<"0">>),
              Leaf(KMLNS, "rotation", <<"5">>)>>]>>]

\* The element of the scenario as section 8 writes it.
Scenario == ScenarioElement(<<"3">>, <<"1", "0", "0">>, Tok_absolute, <<"1", "0">>)

\* The scenario and its variants with unparseable, blank or unknown texts.
ScenarioElements ==
    {ScenarioElement(d, a, m, n) :
       d \in {<<"3">>, T_abc, <<" ">>, <<" ", "7", " ">>},
       a \in {<<"1", "0", "0">>, <<"1", "x">>, <<"1", ".", "5">>},
       m \in {Tok_absolute, T_bogus},
       n \in {<<"1", "0">>, T_n, <<"-", "9", "0">>}}

\* An element without its children of the given name.
Without(e, ns, node_name) ==
    [e EXCEPT !.children = SelectSeq(@, LAMBDA c : c.tag # QName(ns, node_name))]

\* Scenario variants that have no altitudeMode child.
NoAltitudeMode ==
    {Without(ScenarioElement(d, a, Tok_absolute, n), KMLNS, "altitudeMode") :
       d \in {<<"3">>, T_abc}, a \in {<<"1", "0", "0">>, <<"1", "x">>},
       n \in {<<"1", "0">>, T_n}}

T_RELATIVETOGROUND == <<"R", "E", "L", "A", "T", "I", "V", "E", "T", "O", "G", "R", "O", "U", "N", "D">>

T_Sphere == <<"S", "p", "h", "e", "r", "e">>

\* The texts of a coordinates child: 2 numbers, 3, 1, 4, no numbers, blank
\* and empty.
CoordTexts ==
    {<<"1", ",", "2">>, <<"1", ",", "2", ",", "3">>, <<"1">>,
     <<"1", ",", "2", ",", "3", ",", "4">>, <<"a", ",", "b">>, <<" ">>, <<>>}

\* A Point element: altitudeMode and coordinates, each child optional.
PointElement(altitude_mode, coordinates) ==
    [tag |-> QName(KMLNS, "Point"), text |-> None,
     children |->
       (IF IsNone(altitude_mode) THEN <<>>
        ELSE <<Leaf(KMLNS, "altitudeMode", Val(altitude_mode))>>)
       \o (IF IsNone(coordinates) THEN <<>>
           ELSE <<Leaf(KMLNS, "coordinates", Val(coordinates))>>)]

PointElements ==
    {PointElement(m, c) :
       m \in {None, Some(Tok_relativeToGround), Some(T_RELATIVETOGROUND), Some(T_bogus)},
       c \in {None} \cup {Some(t) : t \in CoordTexts}}

\* A PhotoOverlay element: color, rotation, then optional ViewVolume, Point
\* and shape children.
PhotoElement(view_volume, point, shape) ==
    [tag |-> QName(KMLNS, "PhotoOverlay"), text |-> None,
     children |->
       <<Leaf(KMLNS, "color", T_ff), Leaf(KMLNS, "rotation", <<"1", ".", "5">>)>>
       \o view_volume \o point
       \o (IF IsNone(shape) THEN <<>> ELSE <<Leaf(KMLNS, "shape", Val(shape))>>)]

PhotoElements ==
    {PhotoElement(v, p, sh) :
       v \in {<<>>,
              <<[tag |-> QName(KMLNS, "ViewVolume"), text |-> None,
                 children |-> <<Leaf(KMLNS, "leftFov", <<"1">>),
                                Leaf(KMLNS, "near", T_n)>>]>>},
       p \in {<<>>,
              <<PointElement(Some(T_RELATIVETOGROUND), Some(<<"1", ",", "2">>))>>,
              <<PointElement(None, Some(<<"a", ",", "b">>))>>},
       sh \in {None, Some(Tok_cylinder), Some(T_Sphere), Some(T_bogus), Some(<<" ">>)}}

\* The elements a behaviour may start from.
\* The element under another namespace, its children as they are.
Retag(e, ns) == [e EXCEPT !.tag = QName(ns, @[2])]

\* The scenario's element with its tag, its children and the children of its
\* LatLonBox each under one of two namespaces, and the scenario's element
\* under either namespace with a drawOrder of the other namespace in front.
MixedElements ==
    {[Retag(Scenario, x) EXCEPT
        !.children = [i \in 1..5 |->
                        IF i < 5 THEN Retag(Scenario.children[i], y)
                        ELSE [Retag(Scenario.children[5], y) EXCEPT
                                !.children = [k \in 1..5 |->
                                                Retag(Scenario.children[5].children[k], z)]]]] :
       x \in {KMLNS, "{gx}"}, y \in {KMLNS, "{gx}"}, z \in {KMLNS, "{gx}"}}
      \cup
    {[tag |-> QName(x, "GroundOverlay"), text |-> None,
      children |-> <<Leaf("{gx}", "drawOrder", <<"7">>)>> \o Scenario.children] :
       x \in {KMLNS, "{gx}"}}

\* A nested record element with the given children: 1.5 in a float child, 3
\* in an int child, lowerLeft in gridOrigin.
RecordElement(kind, node_names) ==
    [tag |-> QName(KMLNS, kind), text |-> None,
     children |-> [i \in 1..Len(node_names) |->
                     Leaf(KMLNS, node_names[i],
                          IF node_names[i] = "gridOrigin" THEN Tok_lowerLeft
                          ELSE IF kind = "ImagePyramid" THEN <<"3">>
                          ELSE <<"1", ".", "5">>)]]

\* The children of a nested record element that hold its required fields.
RecordNodes ==
    [ViewVolume |-> <<"leftFov", "rightFov", "bottomFov", "topFov", "near">>,
     ImagePyramid |-> <<"tileSize", "maxWidth", "maxHeight", "gridOrigin">>,
     LatLonBox |-> <<"north", "south", "east", "west">>]

\* Overlay elements whose nested record has all of its required children
\* or all but the last one.
PartialElements ==
    {[tag |-> QName(KMLNS, IF kind = "LatLonBox" THEN "GroundOverlay" ELSE "PhotoOverlay"),
      text |-> None,
      children |-> <<Leaf(KMLNS, "color", T_ff),
                     RecordElement(kind, SubSeq(RecordNodes[kind], 1,
                                                Len(RecordNodes[kind]) - missing))>>] :
       kind \in DOMAIN RecordNodes, missing \in 0..1}

ParseElements ==
    ScenarioElements \cup NoAltitudeMode \cup PointElements \cup PhotoElements
      \cup MixedElements \cup PartialElements

\* The characters the exhaustive texts are built from.
Alphabet == {" ", "0", "1", "-"}

\* Texts with a meaning to some reader, beyond the exhaustive ones.
Words ==
    {<<"t", "r", "u", "e">>,
     <<"T", "r", "u", "e">>,
     <<"T", "R", "U", "E">>,
     <<"f", "a", "l", "s", "e">>,
     <<"F", "A", "L", "S", "E">>,
     <<"y", "e", "s">>,
     <<"2">>,
     <<"-", "1">>,
     <<"+", "1">>,
     <<"1", "_", "0">>,
     <<"1", ".", "5">>,
     <<"a", "b", "c">>,
     <<"1", "0">>,
     <<"-", "0">>,
     <<" ", "t", "r", "u", "e", " ">>, <<"\t", "1", "\n">>, <<"\n">>}

\* Every text of the alphabet up to MaxTextLen characters, and the words.
Texts == UNION {[1..k -> Alphabet] : k \in 0..MaxTextLen} \cup Words

(* ------------------------------------------------------------------ *)
(* State                                                               *)
(* ------------------------------------------------------------------ *)

VARIABLES
    orig,     \* the entity or element the behaviour started from
    obj,      \* Optional: the entity (or object) at hand
    element,  \* Optional: the element at hand
    before,   \* Optional: the element as it was before the last call
    out,      \* Optional: what the last reader or deserializer returned
    hist      \* the calls made so far, each with its arguments

vars == <<orig, obj, element, before, out, hist>>

Last(h) == h[Len(h)]

(* ------------------------------------------------------------------ *)
(* Serialization and deserialization of whole entities                 *)
(* ------------------------------------------------------------------ *)

Precisions == {None, Some(0)}

InitEntity ==
    /\ orig \in Entities
    /\ obj = Some(orig)
    /\ element = None

InitElement ==
    /\ orig \in ParseElements
    /\ obj = None
    /\ element = Some(orig)

Init ==
    /\ InitEntity \/ InitElement
    /\ before = None
    /\ out = None
    /\ hist = <<>>

\* entity.etree_element(precision)
Serialize(precision) ==
    /\ ~IsNone(obj)
    /\ hist = <<>> \/ (Len(hist) = 1 /\ hist[1].op = "from_element")
    /\ element' = Some(ToElement(Val(obj), precision))
    /\ before' = element
    /\ hist' = Append(hist, [op |-> "to_element", precision |-> precision])
    /\ UNCHANGED <<orig, obj, out>>

\* cls.class_from_element(ns, name_spaces, element, strict), cls and ns being
\* those of the element's tag.
Deserialize(strict) ==
    /\ ~IsNone(element)
    /\ hist = <<>> \/ (Len(hist) = 1 /\ hist[1].op = "to_element")
    /\ LET e == Val(element)
           r == FromElement(e.tag[2], e.tag[1], NameSpaces, e, strict)
       IN  /\ out' = Some(r)
           /\ obj' = IF r.ok THEN Some(r.val) ELSE None
    /\ before' = element
    /\ hist' = Append(hist, [op |-> "from_element", strict |-> strict])
    /\ UNCHANGED <<orig, element>>

Next ==
    \/ \E precision \in Precisions : Serialize(precision)
    \/ \E strict \in BOOLEAN : Deserialize(strict)

Spec == Init /\ [][Next]_vars


(* ------------------------------------------------------------------ *)
(* The field codec helpers called one at a time                        *)
(* ------------------------------------------------------------------ *)

\* Objects with a text attribute and a boolean attribute.
CodecObjs ==
    {XMLObject("Obj", n) @@ [text_attr |-> t, bool_attr |-> b] :
       n \in {KMLNS, ""}, t \in OptText, b \in OptBool}

Parent(children) ==
    [tag |-> QName(KMLNS, "Parent"), text |-> None, children |-> children]

\* Elements handed to a writer: empty, or holding a child already.
WriterElements == {Parent(<<>>), Parent(<<Leaf(KMLNS, "value", <<"0">>)>>)}

\* Elements handed to a text, boolean or numeric reader: the child "value" of
\* the dialect's namespace is missing, or holds no text or any text; it may
\* follow a namesake of another namespace and precede a second "value".
ReaderElements ==
    {Parent(pre \o target \o post) :
       pre \in {<<>>, <<Leaf("{gx}", "value", <<"1">>)>>},
       target \in {<<>>, <<NewElement(QName(KMLNS, "value"))>>}
                    \cup {<<Leaf(KMLNS, "value", t)>> : t \in Texts},
       post \in {<<>>, <<Leaf(KMLNS, "value", <<"0">>)>>}}

\* An ImagePyramid element whose gridOrigin is no token of the enum.
BogusPyramid ==
    [tag |-> QName(KMLNS, "ImagePyramid"), text |-> None,
     children |-> <<Leaf(KMLNS, "tileSize", <<"3">>), Leaf(KMLNS, "gridOrigin", T_bogus)>>]

\* Elements handed to the nested-entity reader: no record, one record, or two
\* records of the same class.
NestedElements ==
    {[Parent(pre \o nested) EXCEPT !.tag = QName(KMLNS, "Holder")] :
       pre \in {<<>>, <<Leaf(KMLNS, "value", <<"1">>)>>},
       nested \in {<<>>, <<Scenario.children[5]>>,
                   <<ScenarioElement(<<"3">>, <<"1">>, Tok_absolute, T_n).children[5]>>,
                   <<BogusPyramid>>,
                   <<Scenario.children[5],
                     ScenarioElement(<<"3">>, <<"1">>, Tok_absolute, T_n).children[5]>>}
                    \cup {<<Obj_etree_element(r, None)>> :
                            r \in Nested(LatLonBoxes({KMLNS, "{gx}"}))
                                    \cup Nested(ViewVolumes({KMLNS}))}}

InitCodec ==
    /\ \/ obj \in {Some(o) : o \in CodecObjs} /\ element \in {Some(e) : e \in WriterElements}
       \/ obj = None /\ element \in {Some(e) : e \in ReaderElements \cup NestedElements}
    /\ orig = element
    /\ before = None
    /\ out = None
    /\ hist = <<>>

AttrNames == {"text_attr", "bool_attr", "absent_attr"}

NodeNames == {"value", "other"}

ReaderNS == {KMLNS, "{gx}"}

\* simple_text_subelement(obj, element, attr_name, node_name)
WriteText(attr_name, node_name) ==
    /\ ~IsNone(obj) /\ hist = <<>>
    /\ attr_name # "bool_attr"
    /\ element' = Some(simple_text_subelement(Val(obj), Val(element), attr_name, node_name))
    /\ before' = element
    /\ hist' = <<[op |-> "simple_text_subelement", attr_name |-> attr_name,
                  node_name |-> node_name]>>
    /\ UNCHANGED <<orig, obj, out>>

\* bool_subelement(obj, element, attr_name, node_name)
WriteBool(attr_name, node_name) ==
    /\ ~IsNone(obj) /\ hist = <<>>
    /\ attr_name # "text_attr"
    /\ element' = Some(bool_subelement(Val(obj), Val(element), attr_name, node_name))
    /\ before' = element
    /\ hist' = <<[op |-> "bool_subelement", attr_name |-> attr_name,
                  node_name |-> node_name]>>
    /\ UNCHANGED <<orig, obj, out>>

\* A reader is called on the element at hand, fresh or just written.
MayRead ==
    /\ hist = <<>> \/ (Len(hist) = 1 /\ hist[1].op \in {"simple_text_subelement", "bool_subelement"})
    /\ Val(element).tag = QName(KMLNS, "Parent")

ReadCall(op, ns, node_name, strict) ==
    [op |-> op, ns |-> ns, node_name |-> node_name, kwarg |-> "kw", strict |-> strict]

\* subelement_text_kwarg(element, ns, node_name, kwarg, strict)
ReadText(ns, node_name, strict) ==
    /\ MayRead
    /\ out' = Some(subelement_text_kwarg(Val(element), ns, node_name, "kw", strict))
    /\ before' = element
    /\ hist' = Append(hist, ReadCall("subelement_text_kwarg", ns, node_name, strict))
    /\ UNCHANGED <<orig, obj, element>>

\* subelement_bool_kwarg(element, ns, node_name, kwarg, strict)
ReadBool(ns, node_name, strict) ==
    /\ MayRead
    /\ out' = Some(subelement_bool_kwarg(Val(element), ns, node_name, "kw", strict))
    /\ before' = element
    /\ hist' = Append(hist, ReadCall("subelement_bool_kwarg", ns, node_name, strict))
    /\ UNCHANGED <<orig, obj, element>>

\* subelement_int_kwarg(element, ns, node_name, kwarg, strict)
ReadInt(ns, node_name, strict) ==
    /\ MayRead /\ hist = <<>>
    /\ out' = Some(subelement_int_kwarg(Val(element), ns, node_name, "kw", strict))
    /\ before' = element
    /\ hist' = Append(hist, ReadCall("subelement_int_kwarg", ns, node_name, strict))
    /\ UNCHANGED <<orig, obj, element>>

\* subelement_float_kwarg(element, ns, node_name, kwarg, strict)
ReadFloat(ns, node_name, strict) ==
    /\ MayRead /\ hist = <<>>
    /\ out' = Some(subelement_float_kwarg(Val(element), ns, node_name, "kw", strict))
    /\ before' = element
    /\ hist' = Append(hist, ReadCall("subelement_float_kwarg", ns, node_name, strict))
    /\ UNCHANGED <<orig, obj, element>>

\* xml_subelement_kwarg(element, ns, name_spaces, kwarg, obj_class, strict)
ReadXml(ns, obj_class, strict) ==
    /\ hist = <<>>
    /\ Val(element).tag = QName(KMLNS, "Holder")
    /\ out' = Some(xml_subelement_kwarg(Val(element), ns, NameSpaces, "kw", obj_class, strict))
    /\ before' = element
    /\ hist' = Append(hist, ReadCall("xml_subelement_kwarg", ns, obj_class, strict))
    /\ UNCHANGED <<orig, obj, element>>

NextCodec ==
    \/ \E a \in AttrNames, n \in NodeNames : WriteText(a, n)
    \/ \E a \in AttrNames, n \in NodeNames : WriteBool(a, n)
    \/ \E ns \in ReaderNS, n \in NodeNames, strict \in BOOLEAN : ReadText(ns, n, strict)
    \/ \E ns \in ReaderNS, n \in NodeNames, strict \in BOOLEAN : ReadBool(ns, n, strict)
    \/ \E ns \in ReaderNS, n \in NodeNames, strict \in BOOLEAN : ReadInt(ns, n, strict)
    \/ \E ns \in ReaderNS, n \in NodeNames, strict \in BOOLEAN : ReadFloat(ns, n, strict)
    \/ \E ns \in ReaderNS, c \in {"ViewVolume", "LatLonBox", "ImagePyramid"},
          strict \in BOOLEAN : ReadXml(ns, c, strict)

SpecCodec == InitCodec /\ [][NextCodec]_vars


(* ------------------------------------------------------------------ *)
(* Setting the bounding box of a GroundOverlay                         *)
(* ------------------------------------------------------------------ *)

\* GroundOverlays that differ in their altitude mode and bounding box only.
BoxOverlays ==
    {g \in GroundOverlays :
       /\ g.name = None /\ g.color = None /\ g.draw_order = None
       /\ g.icon = None /\ g.altitude = None}

\* Latitudes, longitudes and rotations in tenths of a degree, inside and
\* outside the ranges of the dialect.
Latitudes == {0, 450, 910, -905}

Longitudes == {0, 1800, 1810}

Rotations == {0, -1850}

InitBox ==
    /\ orig \in BoxOverlays
    /\ obj = Some(orig)
    /\ element = None
    /\ before = None
    /\ out = None
    /\ hist = <<>>

\* overlay.lat_lon_box = LatLonBox(ns, name_spaces, north, south, east, west,
\* rotation): the way the classes offer to set the bounds of an overlay.
SetLatLonBox(north, south, east, west, rotation) ==
    /\ hist = <<>>
    /\ out' = Some(Ok(LatLonBox_init(
                 [ns |-> Val(obj).ns, name_spaces |-> Val(obj).name_spaces,
                  north |-> north, south |-> south, east |-> east, west |-> west,
                  rotation |-> rotation])))
    /\ obj' = Some([Val(obj) EXCEPT !.lat_lon_box = Some(Val(out').val)])
    /\ hist' = <<[op |-> "set_lat_lon_box", north |-> north, south |-> south,
                  east |-> east, west |-> west, rotation |-> rotation]>>
    /\ UNCHANGED <<orig, element, before>>

NextBox ==
    \E north \in Latitudes, south \in {0, 910}, east \in Longitudes,
       west \in {0, -1810}, rotation \in Rotations :
      SetLatLonBox(north, south, east, west, rotation)

SpecBox == InitBox /\ [][NextBox]_vars

(* ------------------------------------------------------------------ *)
(* The enum classes called on a token                                  *)
(* ------------------------------------------------------------------ *)

\* str.upper() on one character of the model's alphabet.
UpperChar(c) ==
    IF \E u \in DOMAIN UpperToLower : UpperToLower[u] = c
      THEN CHOOSE u \in DOMAIN UpperToLower : UpperToLower[u] = c
      ELSE c

\* str.upper()
StrUpper(s) == [i \in 1..Len(s) |-> UpperChar(s[i])]

\* Tokens handed to an enum class: the tokens of the three domains as they
\* are, in lower case and in upper case, with a leading or a trailing blank,
\* and texts that are no token in any letter case.
EnumInputs ==
    LET all == AltitudeMode \cup GridOrigin \cup Shape
    IN  all \cup {StrLower(m) : m \in all} \cup {StrUpper(m) : m \in all}
          \cup {<<" ">> \o m : m \in Shape} \cup {m \o <<" ">> : m \in GridOrigin}
          \cup {<<>>, T_bogus, T_Sphere, T_abc}

InitEnum ==
    /\ orig \in EnumInputs
    /\ obj = None
    /\ element = None
    /\ before = None
    /\ out = None
    /\ hist = <<>>

\* enum_class(token)
FromToken(enum_class) ==
    /\ hist = <<>>
    /\ out' = Some(EnumFromToken(enum_class, orig))
    /\ hist' = <<[op |-> "enum", enum_class |-> enum_class, token |-> orig]>>
    /\ UNCHANGED <<orig, obj, element, before>>

NextEnum == \E enum_class \in {"AltitudeMode", "GridOrigin", "Shape"} : FromToken(enum_class)

SpecEnum == InitEnum /\ [][NextEnum]_vars

(* ------------------------------------------------------------------ *)
(* The enum writer called on an object                                 *)
(* ------------------------------------------------------------------ *)

\* Objects whose altitude_mode is unset, a value of the domain, or a str.
EnumObjs ==
    {XMLObject("Obj", n) @@ [altitude_mode |-> m] :
       n \in {KMLNS, ""},
       m \in {None} \cup {Some(v) : v \in AltitudeMode}
               \cup {Some(RawStr(t)) : t \in {T_bogus, Tok_absolute, T_RELATIVETOGROUND}}}

InitEnumWriter ==
    /\ obj \in {Some(o) : o \in EnumObjs}
    /\ element \in {Some(e) : e \in WriterElements}
    /\ orig = element
    /\ before = None
    /\ out = None
    /\ hist = <<>>

\* enum_subelement(obj, element, attr_name, node_name). When the call raises,
\* the child may or may not have been appended, without text, before.
WriteEnum(attr_name, node_name) ==
    /\ hist = <<>>
    /\ LET r == enum_subelement(Val(obj), Val(element), attr_name, node_name)
       IN  IF "ok" \in DOMAIN r
             THEN /\ out' = Some(r)
                  /\ element' \in {element,
                                   Some(ElementAppend(Val(element),
                                          NewElement(QName(Val(obj).ns, node_name))))}
             ELSE /\ out' = Some(Ok(None))
                  /\ element' = Some(r)
    /\ before' = element
    /\ hist' = <<[op |-> "enum_subelement", attr_name |-> attr_name,
                  node_name |-> node_name]>>
    /\ UNCHANGED <<orig, obj>>

NextEnumWriter ==
    \E a \in {"altitude_mode", "absent_attr"}, n \in {"altitudeMode", "value"} : WriteEnum(a, n)

SpecEnumWriter == InitEnumWriter /\ [][NextEnumWriter]_vars

(* ------------------------------------------------------------------ *)
(* The same call made twice                                            *)
(* ------------------------------------------------------------------ *)

InitRepeat ==
    /\ \/ orig \in MixedOverlays /\ obj = Some(orig) /\ element = None
       \/ orig \in MixedElements \cup PointElements /\ obj = None /\ element = Some(orig)
    /\ before = None
    /\ out = None
    /\ hist = <<>>

\* The number of calls made on one entity or element.
MaxCalls == 2

\* A mistaken serialization: it appends to the element of the call before in
\* place of building a new one.
EtreeElement_appending(precision) ==
    /\ ~IsNone(obj)
    /\ Len(hist) < MaxCalls
    /\ element' = IF IsNone(element) THEN Some(ToElement(Val(obj), precision))
                  ELSE Some([Val(element) EXCEPT
                               !.children = @ \o ToElement(Val(obj), precision).children])
    /\ before' = element
    /\ hist' = Append(hist, [op |-> "to_element", precision |-> precision])
    /\ UNCHANGED <<orig, obj, out>>

\* entity.etree_element(precision), whatever was called before.
EtreeElement(precision) ==
    /\ ~IsNone(obj)
    /\ Len(hist) < MaxCalls
    /\ element' = Some(ToElement(Val(obj), precision))
    /\ before' = element
    /\ hist' = Append(hist, [op |-> "to_element", precision |-> precision])
    /\ UNCHANGED <<orig, obj, out>>

\* cls.class_from_element(ns, name_spaces, element, strict), whatever was
\* called before.
ClassFromElement(strict) ==
    /\ ~IsNone(element)
    /\ Len(hist) < MaxCalls
    /\ LET e == Val(element)
           r == FromElement(e.tag[2], e.tag[1], NameSpaces, e, strict)
       IN  /\ out' = Some(r)
           /\ obj' = IF r.ok THEN Some(r.val) ELSE None
    /\ before' = element
    /\ hist' = Append(hist, [op |-> "from_element", strict |-> strict])
    /\ UNCHANGED <<orig, element>>

NextRepeat ==
    \/ \E precision \in Precisions : EtreeElement(precision)
    \/ \E strict \in BOOLEAN : ClassFromElement(strict)

SpecRepeat == InitRepeat /\ [][NextRepeat]_vars




(* ------------------------------------------------------------------ *)
(* Vocabulary of the properties                                        *)
(* ------------------------------------------------------------------ *)

\* The tags of the children of an element, in order.
ChildTags(e) == [i \in 1..Len(e.children) |-> e.children[i].tag]

\* The positions of the children of e that carry the tag.
Tagged(e, tag) == {i \in 1..Len(e.children) : e.children[i].tag = tag}

\* The first child of e that carries the tag (Tagged(e, tag) is not empty).
FirstTagged(e, tag) ==
    e.children[CHOOSE i \in Tagged(e, tag) : \A j \in Tagged(e, tag) : i <= j]

\* A text that is empty or holds whitespace only; no text at all counts too.
Blank(text) == text = None \/ \A i \in 1..Len(Val(text)) : Val(text)[i] \in Whitespace

\* The fields a compound record needs to be present.
Required(kind) ==
    CASE kind = "ViewVolume" -> {"left_fov", "right_fov", "bottom_fov", "top_fov", "near"}
      [] kind = "ImagePyramid" -> {"tile_size", "max_width", "max_height", "grid_origin"}
      [] kind = "LatLonBox" -> {"north", "south", "east", "west"}
      [] kind = "Icon" -> {"href"}

AllSet(rec) == \A f \in Required(rec.kind) : rec[f] # None

NestedAttrs == {"icon", "view_volume", "image_pyramid", "lat_lon_box"}

\* The compound records of an entity: itself, or the ones it holds.
Compounds(o) ==
    (IF o.kind \in {"ViewVolume", "ImagePyramid", "LatLonBox"} THEN {o} ELSE {})
      \cup {Val(o[a]) : a \in {x \in (NestedAttrs \ {"icon"}) \cap DOMAIN o : o[x] # None}}

\* The last call was a reader of the named kind.
Reading(ops) == hist # <<>> /\ Last(hist).op \in ops

\* The tag a reader call looks up.
LookedUp == QName(Last(hist).ns, Last(hist).node_name)

\* The behaviour serialized its entity (default precision) and parsed the result.
RoundTripped ==
    /\ Len(hist) = 2
    /\ hist[1].op = "to_element" /\ hist[1].precision = None
    /\ hist[2].op = "from_element"

\* The behaviour parsed its element and serialized the entity (default precision).
Reserialized ==
    /\ Len(hist) = 2
    /\ hist[1].op = "from_element"
    /\ hist[2].op = "to_element" /\ hist[2].precision = None

(* ------------------------------------------------------------------ *)
(* C1                                                                  *)
(* ------------------------------------------------------------------ *)

\* C1: deserializing the element produced by serializing an entity yields an
\* entity whose attributes all equal those of the original. Stated for the
\* entities whose nested records are unset or have every required field set,
\* so that only set/unset combinations of plain values are at stake.
C1_RoundTrip ==
    (RoundTripped /\ \A a \in NestedAttrs \cap DOMAIN orig :
                        orig[a] = None \/ AllSet(Val(orig[a])))
      => out = Some(Ok(orig))

(* ------------------------------------------------------------------ *)
(* C2                                                                  *)
(* ------------------------------------------------------------------ *)

\* The children of e are those of b followed by exactly one more child.
OneAppended(b, e, child) ==
    /\ e.tag = b.tag /\ e.text = b.text
    /\ e.children = b.children \o <<child>>

\* C2: a text or boolean field writer called on an object whose attribute is
\* absent or falsy leaves the element as it was; when the attribute is truthy
\* it appends exactly one child named obj.ns + node_name that carries the
\* canonical text (the text itself; "1" for True) and changes nothing else.
C2_FieldWriter ==
    (Len(hist) = 1 /\ hist[1].op \in {"simple_text_subelement", "bool_subelement"}) =>
      LET c == hist[1]
          o == Val(obj)
          v == IF c.attr_name \in DOMAIN o THEN o[c.attr_name] ELSE None
          falsy == v = None \/ Val(v) = (IF c.op = "bool_subelement" THEN FALSE ELSE <<>>)
          text == IF c.op = "bool_subelement" THEN <<"1">> ELSE Val(v)
      IN  IF falsy THEN element = before
          ELSE OneAppended(Val(before), Val(element),
                 [tag |-> <<o.ns, c.node_name>>, text |-> Some(text), children |-> <<>>])

\* C2 witness: a writer appended a child to an element that held one already.
C2_Witness ==
    /\ Len(hist) = 1 /\ hist[1].op = "bool_subelement"
    /\ Len(Val(before).children) = 1
    /\ Len(Val(element).children) = 2

(* ------------------------------------------------------------------ *)
(* C3                                                                  *)
(* ------------------------------------------------------------------ *)

VVFields == <<"left_fov", "right_fov", "bottom_fov", "top_fov", "near">>

VVNodes == <<"leftFov", "rightFov", "bottomFov", "topFov", "near">>

\* C3: a serialized PhotoOverlay has no ViewVolume child when its ViewVolume
\* has only 4 of the 5 fields set, and exactly one ViewVolume child holding
\* leftFov, rightFov, bottomFov, topFov, near in that order when all 5 are
\* set, whatever the values (0 included).
C3_ViewVolumeAllOrNothing ==
    (Len(hist) = 1 /\ hist[1].op = "to_element" /\ orig.kind = "PhotoOverlay"
       /\ orig.view_volume # None) =>
      LET vv == Val(orig.view_volume)
          n == Cardinality({i \in 1..5 : vv[VVFields[i]] # None})
          e == Val(element)
          hits == Tagged(e, <<vv.ns, "ViewVolume">>)
      IN  /\ n = 4 => hits = {}
          /\ n = 5 => /\ Cardinality(hits) = 1
                      /\ \A i \in hits :
                           ChildTags(e.children[i]) = [k \in 1..5 |-> <<vv.ns, VVNodes[k]>>]

(* ------------------------------------------------------------------ *)
(* C4                                                                  *)
(* ------------------------------------------------------------------ *)

\* C4: a compound record is truthy exactly when every one of its required
\* fields is not None, whatever the values: the five fields of a ViewVolume,
\* the four of an ImagePyramid, north, south, east and west of a LatLonBox
\* (rotation set or unset).
C4_PresentIffAllSet ==
    obj # None => \A r \in Compounds(Val(obj)) : Obj_bool(r) = AllSet(r)

\* C4 witness: a LatLonBox with rotation unset and a bound of 0 is truthy, and
\* the behaviour has serialized it.
C4_Witness ==
    /\ Len(hist) = 1 /\ hist[1].op = "to_element"
    /\ Val(obj).kind = "LatLonBox"
    /\ Val(obj).rotation = None /\ Val(obj).south = Some(0)
    /\ Obj_bool(Val(obj))

(* ------------------------------------------------------------------ *)
(* C5                                                                  *)
(* ------------------------------------------------------------------ *)

\* The entity the scenario's element stands for (floats in tenths).
ScenarioEntity ==
    XMLObject("GroundOverlay", KMLNS) @@
      [name |-> None, color |-> Some(T_ff), draw_order |-> Some(3), icon |-> None,
       altitude |-> Some(1000), altitude_mode |-> Some(Tok_absolute),
       lat_lon_box |-> Some(XMLObject("LatLonBox", KMLNS) @@
                              [north |-> Some(100), south |-> Some(0),
                               east |-> Some(100), west |-> Some(0),
                               rotation |-> Some(50)])]

\* Leaves with the same tag that hold the same number.
SameNumber(a, b) ==
    a.tag = b.tag /\ FloatValue(Val(a.text)) = FloatValue(Val(b.text))

\* C5: parsing the scenario's GroundOverlay element yields an entity holding
\* exactly its values, lat_lon_box included, and serializing that entity
\* again gives the same child tags with the same values in the same order,
\* the south and west children of value 0 included.
C5_Scenario ==
    (hist # <<>> /\ hist[1].op = "from_element" /\ orig = Scenario) =>
      /\ out = Some(Ok(ScenarioEntity))
      /\ Reserialized =>
           LET e == Val(element)
               box == e.children[Len(e.children)]
               box0 == Scenario.children[5]
           IN  /\ ChildTags(e) = ChildTags(Scenario)
               /\ e.children[1] = Scenario.children[1]
               /\ e.children[4] = Scenario.children[4]
               /\ \A i \in {2, 3} : SameNumber(e.children[i], Scenario.children[i])
               /\ ChildTags(box) = ChildTags(box0)
               /\ \A i \in 1..5 : SameNumber(box.children[i], box0.children[i])

(* ------------------------------------------------------------------ *)
(* C6                                                                  *)
(* ------------------------------------------------------------------ *)

\* The child a nested-entity reader call looks up.
LookedUpClass == QName(Last(hist).ns, get_tag_name(Last(hist).node_name))

\* C6: a text, boolean or nested-entity reader whose target child is missing
\* from the element returns the empty mapping without raising, in strict and
\* in lenient mode, and leaves the element as it was.
C6_MissingChild ==
    /\ (Reading({"subelement_text_kwarg", "subelement_bool_kwarg"})
          /\ Tagged(Val(before), LookedUp) = {})
         => out = Some(Ok(EmptyKw)) /\ element = before
    /\ (Reading({"xml_subelement_kwarg"}) /\ Tagged(Val(before), LookedUpClass) = {})
         => out = Some(Ok(EmptyKw)) /\ element = before

\* C6 witness: the strict nested-entity reader found no LatLonBox among the
\* children of an element that has a child, and returned the empty mapping.
C6_Witness ==
    /\ Reading({"xml_subelement_kwarg"})
    /\ Last(hist).strict /\ Last(hist).node_name = "LatLonBox"
    /\ Val(before).children # <<>>
    /\ Tagged(Val(before), LookedUpClass) = {}
    /\ out = Some(Ok(EmptyKw))

(* ------------------------------------------------------------------ *)
(* C7, C8, C9                                                          *)
(* ------------------------------------------------------------------ *)

\* The boolean reader was called in the given mode on a child that holds
\* text other than whitespace.
BoolRead(strict) ==
    /\ Reading({"subelement_bool_kwarg"})
    /\ Last(hist).strict = strict
    /\ Tagged(Val(before), LookedUp) # {}
    /\ ~Blank(FirstTagged(Val(before), LookedUp).text)

\* The text the last reader call found, without surrounding whitespace.
FoundText == StrStrip(Val(FirstTagged(Val(before), LookedUp).text))

\* C7: the strict boolean reader maps a child text that is an integer literal
\* n to n != 0 ("2" and "-1" give True, "0" gives False) and raises an error
\* on a text that is not an integer literal ("true", "yes").
C7_StrictBool ==
    BoolRead(TRUE) =>
      /\ IsIntLiteral(FoundText) => out = Some(Ok("kw" :> (IntValue(FoundText) # 0)))
      /\ ~IsIntLiteral(FoundText) => ~Val(out).ok
      /\ FoundText \in {<<"2">>, <<"-", "1">>, <<"1">>} => out = Some(Ok("kw" :> TRUE))
      /\ FoundText \in {<<"0">>, <<"0", "0">>} => out = Some(Ok("kw" :> FALSE))
      /\ FoundText \in {<<"t", "r", "u", "e">>, <<"y", "e", "s">>, <<"-">>} => ~Val(out).ok

\* C7 witness: the strict boolean reader read "-1" as True.
C7_Witness ==
    /\ BoolRead(TRUE)
    /\ FoundText = <<"-", "1">>
    /\ out = Some(Ok("kw" :> TRUE))

\* C8: the lenient boolean reader maps "1" and "true" in any letter case to
\* True, "0" and "false" in any letter case to False, returns the empty
\* mapping for any other text ("2", "yes") and never raises.
C8_LenientBool ==
    BoolRead(FALSE) =>
      LET low == StrLower(FoundText)
      IN  /\ Val(out).ok
          /\ low \in {<<"1">>, <<"t", "r", "u", "e">>} => out = Some(Ok("kw" :> TRUE))
          /\ low \in {<<"0">>, <<"f", "a", "l", "s", "e">>} => out = Some(Ok("kw" :> FALSE))
          /\ low \notin {<<"1">>, <<"t", "r", "u", "e">>, <<"0">>, <<"f", "a", "l", "s", "e">>}
               => out = Some(Ok(EmptyKw))

\* C8 witness: the lenient boolean reader read "-1" as the empty mapping.
C8_Witness ==
    /\ BoolRead(FALSE)
    /\ FoundText = <<"-", "1">>
    /\ out = Some(Ok(EmptyKw))

\* C9: a text, boolean, integer or float reader whose target child exists but
\* holds no text, or whitespace only, returns the empty mapping without
\* raising, in strict and in lenient mode.
C9_BlankChild ==
    (Reading({"subelement_text_kwarg", "subelement_bool_kwarg",
              "subelement_int_kwarg", "subelement_float_kwarg"})
       /\ Tagged(Val(before), LookedUp) # {}
       /\ Blank(FirstTagged(Val(before), LookedUp).text))
      => out = Some(Ok(EmptyKw))

\* C9 witness: the strict boolean reader returned the empty mapping for a
\* child that holds whitespace.
C9_Witness ==
    /\ Reading({"subelement_bool_kwarg"})
    /\ Last(hist).strict
    /\ Tagged(Val(before), LookedUp) # {}
    /\ FirstTagged(Val(before), LookedUp).text = Some(<<" ", " ">>)
    /\ out = Some(Ok(EmptyKw))

(* ------------------------------------------------------------------ *)
(* C10                                                                 *)
(* ------------------------------------------------------------------ *)

\* The text of the first child of e named node_name in the dialect's
\* namespace; None when there is no such child.
TextAt(e, node_name) ==
    IF Tagged(e, QName(KMLNS, node_name)) = {} THEN None
    ELSE FirstTagged(e, QName(KMLNS, node_name)).text

\* The numeric children of a GroundOverlay element whose text is neither
\* blank nor a literal of the child's type.
BadNumbers(e) ==
    {n \in {"drawOrder"} : ~Blank(TextAt(e, n)) /\ ~IsIntLiteral(StrStrip(Val(TextAt(e, n))))}
      \cup
    {n \in {"altitude"} : ~Blank(TextAt(e, n)) /\ ~IsFloatLiteral(StrStrip(Val(TextAt(e, n))))}
      \cup
    {n \in {"north"} :
       /\ Tagged(e, QName(KMLNS, "LatLonBox")) # {}
       /\ LET box == FirstTagged(e, QName(KMLNS, "LatLonBox"))
          IN  ~Blank(TextAt(box, n)) /\ ~IsFloatLiteral(StrStrip(Val(TextAt(box, n))))}

\* C10: a numeric child (drawOrder, altitude, north) whose text is present
\* but not a number makes deserialization raise a parse error, in strict and
\* in lenient mode, and the error names the offending child: the first one
\* in reading order, unless strict mode rejected the altitudeMode before the
\* reader reached the LatLonBox.
C10_NumericParseError ==
    (hist # <<>> /\ hist[1].op = "from_element" /\ BadNumbers(orig) # {}) =>
      LET r == Val(out)
          bad == BadNumbers(orig)
          first == IF "drawOrder" \in bad THEN "drawOrder"
                   ELSE IF "altitude" \in bad THEN "altitude" ELSE "north"
          mode == TextAt(orig, "altitudeMode")
          rejected == /\ hist[1].strict /\ first = "north"
                      /\ ~Blank(mode)
                      /\ \A m \in AltitudeMode : StrLower(m) # StrLower(StrStrip(Val(mode)))
      IN  /\ ~r.ok
          /\ r.err.kind = "KMLParseError"
          /\ r.err.node = IF rejected THEN "altitudeMode" ELSE first

\* C10 witness: lenient deserialization raised a parse error naming north,
\* the only child that is not a number.
C10_Witness ==
    /\ hist # <<>> /\ hist[1].op = "from_element" /\ ~hist[1].strict
    /\ BadNumbers(orig) = {"north"}
    /\ ~Val(out).ok /\ Val(out).err.node = "north"

(* ------------------------------------------------------------------ *)
(* C11                                                                 *)
(* ------------------------------------------------------------------ *)

\* The behaviour started from an element of the given kind and parsed it.
Parsed(kind) ==
    /\ hist # <<>> /\ hist[1].op = "from_element"
    /\ orig.tag = QName(KMLNS, kind)

\* The text is set, not blank, and no token of the domain in any letter case.
Unknown(text, domain) ==
    /\ ~Blank(text)
    /\ \A m \in domain : StrLower(m) # StrLower(StrStrip(Val(text)))

\* The children of a PhotoOverlay element read before shape all parse: it has
\* no ViewVolume child, and its Point child, if any, holds two numbers.
ShapeReached(e) ==
    /\ Tagged(e, QName(KMLNS, "ViewVolume")) = {}
    /\ \/ Tagged(e, QName(KMLNS, "Point")) = {}
       \/ TextAt(FirstTagged(e, QName(KMLNS, "Point")), "coordinates")
            = Some(<<"1", ",", "2">>)

C12_ShapeDefault ==
    (RoundTripped /\ orig.kind = "PhotoOverlay" /\ orig.shape = None) =>
      /\ Val(out).ok
      /\ Val(out).val.shape = Some(Tok_rectangle)

\* C13: a GroundOverlay parsed in lenient mode from an element whose
\* altitudeMode child is missing or holds an invalid token has
\* altitude_mode = clampToGround.
C13_AltitudeModeDefault ==
    (Parsed("GroundOverlay") /\ ~hist[1].strict /\ Val(out).ok
       /\ \/ Tagged(orig, QName(KMLNS, "altitudeMode")) = {}
          \/ Unknown(TextAt(orig, "altitudeMode"), AltitudeMode)) =>
      Val(out).val.altitude_mode = Some(Tok_clampToGround)

(* ------------------------------------------------------------------ *)
(* C14                                                                 *)
(* ------------------------------------------------------------------ *)

\* The bounds were set: the arguments of the call.
BoxSet == hist # <<>> /\ hist[1].op = "set_lat_lon_box"

\* The arguments of the call that lie outside the ranges of the dialect.
OutOfRange(c) ==
    {f \in {"north", "south"} : c[f] < -900 \/ c[f] > 900}
      \cup {f \in {"east", "west", "rotation"} : c[f] < -1800 \/ c[f] > 1800}

BoundNames == {"north", "south", "east", "west", "rotation"}

Serialized(kind) ==
    /\ hist # <<>> /\ Last(hist).op = "to_element"
    /\ Val(obj).kind = kind

\* The names of the children of an element, in order, without namespace.
LocalNames(e) == [i \in 1..Len(e.children) |-> e.children[i].tag[2]]

\* The names all occur in order, each at most once and in the order's order.
InOrder(names, order) ==
    /\ \A i \in DOMAIN names : \E k \in DOMAIN order : order[k] = names[i]
    /\ \A i, j \in DOMAIN names :
         i < j => \E k, l \in DOMAIN order :
                    k < l /\ order[k] = names[i] /\ order[l] = names[j]

\* The element has a child of that name.
Emits(e, node_name) == \E i \in 1..Len(e.children) : e.children[i].tag[2] = node_name

GroundOrder == <<"name", "color", "drawOrder", "Icon", "altitude", "altitudeMode", "LatLonBox">>

PhotoOrder == <<"name", "color", "drawOrder", "Icon", "rotation", "ViewVolume", "ImagePyramid", "Point", "shape">>

NestedFound ==
    /\ Reading({"xml_subelement_kwarg"})
    /\ Tagged(Val(before), LookedUpClass) # {}

\* What the deserializer of the looked-up class makes of the first matching
\* child, given the namespace, prefix map and mode of the call.
NestedChild ==
    class_from_element(Last(hist).node_name, Last(hist).ns, NameSpaces,
                       FirstTagged(Val(before), LookedUpClass), Last(hist).strict)

\* C17: the nested-entity reader looks up the first child tagged with its
\* namespace and the tag name of the child class and returns {kwarg: child},
\* the child built by the class's deserializer from that element with the
\* namespace, the prefix map and the mode of the call; an error of the
\* deserializer is the reader's; the mode is not stored in the entity.
C17_NestedReader ==
    NestedFound =>
      /\ out = Some(IF NestedChild.ok THEN Ok("kw" :> NestedChild.val) ELSE NestedChild)
      /\ element = before
      /\ NestedChild.ok =>
           /\ NestedChild.val.kind = Last(hist).node_name
           /\ NestedChild.val.ns = Last(hist).ns
           /\ NestedChild.val.name_spaces = NameSpaces
           /\ "strict" \notin DOMAIN NestedChild.val
      /\ (Last(hist).strict /\ FirstTagged(Val(before), LookedUpClass) = BogusPyramid)
           => ~Val(out).ok

\* C17 witness: of two LatLonBox children the reader built the first one,
\* whatever the second, malformed one holds.
C17_Witness ==
    /\ NestedFound
    /\ Cardinality(Tagged(Val(before), LookedUpClass)) = 2
    /\ Val(out).ok
    /\ Val(out).val["kw"].ns = KMLNS
    /\ Val(out).val["kw"].north = Some(100)
    /\ ~class_from_element("LatLonBox", KMLNS, NameSpaces,
                           Val(before).children[Len(Val(before).children)],
                           Last(hist).strict).ok

\* A strict call met a child that only a lenient deserializer accepts.
C17_StrictWitness ==
    /\ NestedFound /\ Last(hist).strict
    /\ FirstTagged(Val(before), LookedUpClass) = BogusPyramid
    /\ ~Val(out).ok

(* ------------------------------------------------------------------ *)
(* C18                                                                 *)
(* ------------------------------------------------------------------ *)

\* The element has a ViewVolume child whose near is set but not a number.
BadNear(e) ==
    /\ Tagged(e, QName(KMLNS, "ViewVolume")) # {}
    /\ LET v == TextAt(FirstTagged(e, QName(KMLNS, "ViewVolume")), "near")
       IN  ~Blank(v) /\ ~IsFloatLiteral(StrStrip(Val(v)))

\* C18: an error raised by a field reader of the entity or of one of its
\* nested records (a non-numeric drawOrder or altitude of a GroundOverlay, a
\* non-numeric north of its LatLonBox, a non-numeric near of the ViewVolume
\* of a PhotoOverlay) makes the outermost deserialization raise, in both
\* modes, and no entity is returned; an unknown enumerated value is dropped
\* without error in lenient mode.
C18_ErrorsPropagate ==
    /\ (hist # <<>> /\ Last(hist).op = "from_element" /\ ~Val(out).ok) => obj = None
    /\ Parsed("GroundOverlay") =>
         /\ BadNumbers(orig) # {} => ~Val(out).ok /\ Val(out).err.kind = "KMLParseError"
         /\ (~hist[1].strict /\ BadNumbers(orig) = {}) => Val(out).ok
         /\ (/\ ~hist[1].strict /\ BadNumbers(orig) = {}
             /\ Unknown(TextAt(orig, "altitudeMode"), AltitudeMode))
              => Val(out).val.altitude_mode = None
    /\ Parsed("PhotoOverlay") =>
         /\ BadNear(orig) => ~Val(out).ok
                               /\ Val(out).err = [kind |-> "KMLParseError", node |-> "near"]
         /\ (/\ ~hist[1].strict /\ ~BadNear(orig)
             /\ Tagged(orig, QName(KMLNS, "Point")) = {}
             /\ Unknown(TextAt(orig, "shape"), Shape))
              => Val(out).ok /\ Val(out).val.shape = None

\* C18 witness: the lenient parse of a PhotoOverlay whose ViewVolume holds a
\* near that is not a number raised, and returned no entity.
C18_Witness ==
    /\ Parsed("PhotoOverlay") /\ Len(hist) = 1 /\ ~hist[1].strict
    /\ BadNear(orig)
    /\ ~Val(out).ok /\ Val(out).err.node = "near"
    /\ obj = None

\* The lenient parse of a GroundOverlay dropped an unknown altitudeMode.
C18_DroppedWitness ==
    /\ Parsed("GroundOverlay") /\ ~hist[1].strict
    /\ Unknown(TextAt(orig, "altitudeMode"), AltitudeMode)
    /\ Val(out).ok /\ Val(out).val.altitude_mode = None

(* ------------------------------------------------------------------ *)
(* C19                                                                 *)
(* ------------------------------------------------------------------ *)

\* An enum class was called on a token.
Constructed == hist # <<>> /\ Last(hist).op = "enum"

\* The tokens of the called class that the token matches when letter case is
\* ignored.
Matching ==
    {m \in EnumTokens(Last(hist).enum_class) : StrLower(m) = StrLower(Last(hist).token)}

Respelled(e) ==
    LET mode == TextAt(e, "altitudeMode")
    IN  IF Blank(mode) \/ StrStrip(Val(mode)) \in AltitudeMode THEN {}
        ELSE {m \in AltitudeMode : StrLower(m) = StrLower(StrStrip(Val(mode)))}

\* The coordinates child of the element holds two or three numbers.
GoodCoordinates(e) ==
    TextAt(e, "coordinates") \in {Some(<<"1", ",", "2">>), Some(<<"1", ",", "2", ",", "3">>)}

\* C20: the strict (default) parse of a Point whose altitudeMode child holds
\* a token of the domain in another letter case, e.g. RELATIVETOGROUND,
\* succeeds and yields the altitude mode whose token is the domain's,
\* relativeToGround.
C20_UppercaseAltitudeMode ==
    (Parsed("Point") /\ hist[1].strict /\ Respelled(orig) # {} /\ GoodCoordinates(orig)) =>
      /\ Val(out).ok
      /\ Val(out).val.kind = "Point"
      /\ Val(out).val.altitude_mode # None
      /\ Val(Val(out).val.altitude_mode) \in Respelled(orig)

\* C20 witness: the strict parse of a Point with altitudeMode
\* RELATIVETOGROUND and coordinates 1,2 gave relativeToGround and (1, 2).
C20_Witness ==
    /\ Parsed("Point") /\ hist[1].strict
    /\ TextAt(orig, "altitudeMode") = Some(T_RELATIVETOGROUND)
    /\ Val(out).ok
    /\ Val(out).val.altitude_mode = Some(Tok_relativeToGround)
    /\ Val(out).val.geometry = Some(<<10, 20>>)

(* ------------------------------------------------------------------ *)
(* C21                                                                 *)
(* ------------------------------------------------------------------ *)

\* The coordinates child of the element is missing, empty, not numeric, or
\* has fewer than 2 or more than 3 components.
InvalidCoordinates(e) ==
    LET text == TextAt(e, "coordinates")
        parts == StrSplit(StrStrip(Val(text)), ",")
    IN  \/ Tagged(e, QName(KMLNS, "coordinates")) = {}
        \/ Blank(text)
        \/ Len(parts) < 2
        \/ Len(parts) > 3
        \/ \E i \in 1..Len(parts) : ~IsFloatLiteral(parts[i])

\* C21: the strict parse of a Point whose coordinates child is missing,
\* empty, not numeric, or has fewer than 2 or more than 3 components raises a
\* parse error about the coordinates that carries the Point element, and
\* returns no entity; the lenient parse of a Point without coordinates child
\* gives, without error, a Point whose geometry is None. (The altitudeMode
\* child, read first, holds no unknown token.)
C21_InvalidCoordinates ==
    (Parsed("Point") /\ ~Unknown(TextAt(orig, "altitudeMode"), AltitudeMode)) =>
      /\ (hist[1].strict /\ InvalidCoordinates(orig)) =>
           /\ ~Val(out).ok
           /\ Val(out).err = [kind |-> "KMLParseError", node |-> "coordinates",
                              element |-> orig]
           /\ Len(hist) = 1 => obj = None
      /\ (~hist[1].strict /\ Tagged(orig, QName(KMLNS, "coordinates")) = {}) =>
           /\ Val(out).ok
           /\ Val(out).val.kind = "Point"
           /\ Val(out).val.geometry = None

\* C21 witness: the strict parse of a Point with coordinates 1,2,3,4 raised
\* the error about its coordinates.
C21_Witness ==
    /\ Parsed("Point") /\ hist[1].strict
    /\ TextAt(orig, "coordinates") = Some(<<"1", ",", "2", ",", "3", ",", "4">>)
    /\ ~Val(out).ok
    /\ Val(out).err.node = "coordinates" /\ Val(out).err.element = orig

\* The lenient parse of a Point without coordinates gave no geometry.
C21_LenientWitness ==
    /\ Parsed("Point") /\ ~hist[1].strict
    /\ orig.children = <<>>
    /\ Val(out).ok /\ Val(out).val.geometry = None

(* ------------------------------------------------------------------ *)
(* C22                                                                 *)
(* ------------------------------------------------------------------ *)

\* The enum writer was called on the attribute altitude_mode.
EnumWritten ==
    /\ hist # <<>> /\ Last(hist).op = "enum_subelement"
    /\ Last(hist).attr_name = "altitude_mode"

\* C22: the enum writer appends nothing when altitude_mode is None; for every
\* value of the domain it appends one child, after the children already
\* there, whose text is the token of the value; when altitude_mode holds a
\* str it raises (AttributeError) and no child with that text is written.
C22_EnumWriter ==
    EnumWritten =>
      LET v == Val(obj).altitude_mode
          tag == QName(Val(obj).ns, Last(hist).node_name)
      IN  /\ v = None => Val(out).ok /\ element = before
          /\ (v # None /\ Val(v) \in AltitudeMode) =>
               /\ Val(out).ok
               /\ element = Some(ElementAppend(Val(before),
                                   [tag |-> tag, text |-> v, children |-> <<>>]))
          /\ (v # None /\ IsRawStr(Val(v))) =>
               /\ ~Val(out).ok
               /\ Val(out).err.kind = "AttributeError"
               /\ \A i \in 1..Len(Val(element).children) :
                    Val(element).children[i].text # Some(Val(v)[2])

\* C22 witness: the writer raised on the str "bogus".
C22_Witness ==
    /\ EnumWritten
    /\ Val(obj).altitude_mode = Some(RawStr(T_bogus))
    /\ ~Val(out).ok

\* The writer wrote the token of relativeToSeaFloor.
C22_TokenWitness ==
    /\ EnumWritten
    /\ Val(obj).altitude_mode = Some(Tok_relativeToSeaFloor)
    /\ Val(out).ok
    /\ Last(Val(element).children).text = Some(Tok_relativeToSeaFloor)

(* ------------------------------------------------------------------ *)
(* C23                                                                 *)
(* ------------------------------------------------------------------ *)

RECURSIVE OnlyNS(_, _)
\* The element without the children, at any depth, of another namespace.
OnlyNS(e, ns) ==
    LET own == SelectSeq(e.children, LAMBDA c : c.tag[1] = ns)
    IN  [e EXCEPT !.children = [i \in 1..Len(own) |-> OnlyNS(own[i], ns)]]

\* The tag names of the nested records.
NestedNames == {"Icon", "ViewVolume", "ImagePyramid", "LatLonBox", "Point"}

\* The last call parsed an element.
ParsedLast == hist # <<>> /\ Last(hist).op = "from_element"

\* C23: a serialized entity's element and the children written for its own
\* fields all carry the entity's ns, and the children of a nested record all
\* carry the namespace of that record's element; a deserialization reads
\* nothing but the children qualified with the one ns of the call, at every
\* depth (its result is the one the element stripped of every child of
\* another namespace gives), and the entity and its nested records get that
\* ns.
C23_OneNamespace ==
    /\ (hist # <<>> /\ Last(hist).op = "to_element") =>
         LET o == Val(obj)
             e == Val(element)
         IN  /\ e.tag = QName(o.ns, o.kind)
             /\ \A i \in 1..Len(e.children) :
                  IF e.children[i].tag[2] \in NestedNames
                    THEN \A k \in 1..Len(e.children[i].children) :
                           e.children[i].children[k].tag[1] = e.children[i].tag[1]
                    ELSE e.children[i].tag[1] = o.ns
    /\ ParsedLast =>
         LET e == Val(before)
             r == Val(out)
         IN  /\ r = FromElement(e.tag[2], e.tag[1], NameSpaces, OnlyNS(e, e.tag[1]),
                                Last(hist).strict)
             /\ r.ok =>
                  /\ r.val.ns = e.tag[1]
                  /\ \A a \in (NestedAttrs \cup {"point"}) \cap DOMAIN r.val :
                       r.val[a] # None => Val(r.val[a]).ns = e.tag[1]

\* C23 witness: parsing an element of the namespace {gx} whose children are
\* of that namespace and whose LatLonBox holds children of the dialect's
\* namespace gave drawOrder 3 and a LatLonBox without bounds.
C23_Witness ==
    /\ ParsedLast /\ Len(hist) = 1
    /\ orig.tag = QName("{gx}", "GroundOverlay")
    /\ Val(out).ok
    /\ Val(out).val.ns = "{gx}"
    /\ Val(out).val.draw_order = Some(3)
    /\ Val(out).val.lat_lon_box # None
    /\ Val(Val(out).val.lat_lon_box).ns = "{gx}"
    /\ Val(Val(out).val.lat_lon_box).north = None

\* A serialized overlay of the namespace {gx} holds a LatLonBox of the
\* dialect's namespace.
C23_WriterWitness ==
    /\ Len(hist) = 1 /\ hist[1].op = "to_element"
    /\ Val(obj).kind = "GroundOverlay" /\ Val(obj).ns = "{gx}"
    /\ Last(Val(element).children).tag = QName(KMLNS, "LatLonBox")
    /\ Val(element).children[1].tag = QName("{gx}", "name")

(* ------------------------------------------------------------------ *)
(* C24                                                                 *)
(* ------------------------------------------------------------------ *)

\* A step that serializes leaves the entity, nested records included, as it
\* was; a step that deserializes leaves the element tree as it was.
NoSideEffect ==
    /\ Last(hist').op = "to_element" => obj' = obj
    /\ Last(hist').op = "from_element" => element' = element

\* A step that repeats the call before it, arguments included, returns what
\* that call returned.
SameResult ==
    (hist # <<>> /\ Last(hist') = Last(hist)) =>
      /\ Last(hist').op = "to_element" => element' = element
      /\ Last(hist').op = "from_element" => out' = out /\ obj' = obj

FloatNodes ==
    [north |-> "north", south |-> "south", east |-> "east", west |-> "west",
     rotation |-> "rotation", left_fov |-> "leftFov", right_fov |-> "rightFov",
     bottom_fov |-> "bottomFov", top_fov |-> "topFov", near |-> "near"]

\* C25: the float children of the LatLonBox inside a serialized GroundOverlay
\* and of the ViewVolume inside a serialized PhotoOverlay hold their values
\* formatted with the precision given to the overlay's serialization.
C25_PrecisionForwarded ==
    (hist # <<>> /\ Last(hist).op = "to_element"
       /\ Val(obj).kind \in {"GroundOverlay", "PhotoOverlay"}) =>
      \A a \in {"lat_lon_box", "view_volume"} \cap DOMAIN Val(obj) :
        LET rec == Val(obj)[a]
            e == Val(element)
        IN  (rec # None /\ Tagged(e, QName(Val(rec).ns, Val(rec).kind)) # {}) =>
              LET child == FirstTagged(e, QName(Val(rec).ns, Val(rec).kind))
              IN  \A i \in 1..Len(child.children) :
                    \A f \in DOMAIN FloatNodes \cap DOMAIN Val(rec) :
                      child.children[i].tag[2] = FloatNodes[f] =>
                        child.children[i].text
                          = Some(FloatText(Val(Val(rec)[f]), Last(hist).precision))

(* ------------------------------------------------------------------ *)
(* C26, C27                                                            *)
(* ------------------------------------------------------------------ *)

\* A writer wrote the attribute to an element that held no child of the
\* written name, and the matching reader then looked that name up under the
\* namespace of the object.
WrittenThenRead(writer, attr_name, reader) ==
    /\ Len(hist) = 2
    /\ hist[1].op = writer /\ hist[1].attr_name = attr_name
    /\ hist[2].op = reader
    /\ hist[2].ns = Val(obj).ns /\ hist[2].node_name = hist[1].node_name
    /\ Tagged(Val(orig), QName(Val(obj).ns, hist[1].node_name)) = {}

\* The children of the written element that carry the written name.
Written == Tagged(Val(element), QName(Val(obj).ns, hist[1].node_name))

\* C26: a boolean attribute equal to True is written as one child with the
\* text "1" and read back as True by the strict and by the lenient reader; an
\* attribute equal to False is written as no child at all, never as "0", and
\* read back as absent.
C26_BoolWriteRead ==
    WrittenThenRead("bool_subelement", "bool_attr", "subelement_bool_kwarg") =>
      /\ Val(obj).bool_attr = Some(TRUE) =>
           /\ Cardinality(Written) = 1
           /\ \A i \in Written : Val(element).children[i].text = Some(<<"1">>)
           /\ out = Some(Ok("kw" :> TRUE))
      /\ Val(obj).bool_attr = Some(FALSE) =>
           /\ element = orig
           /\ out = Some(Ok(EmptyKw))

\* C26 witness: True was written and read back by the strict reader.
C26_Witness ==
    /\ WrittenThenRead("bool_subelement", "bool_attr", "subelement_bool_kwarg")
    /\ hist[2].strict
    /\ Val(obj).bool_attr = Some(TRUE)
    /\ out = Some(Ok("kw" :> TRUE))

\* False was written, as nothing, and read back as absent by the lenient
\* reader.
C26_FalseWitness ==
    /\ WrittenThenRead("bool_subelement", "bool_attr", "subelement_bool_kwarg")
    /\ ~hist[2].strict
    /\ Val(obj).bool_attr = Some(FALSE)
    /\ out = Some(Ok(EmptyKw))

\* What the text reader makes of a child written from the text.
ReadBack(ns, text) ==
    subelement_text_kwarg(
      simple_text_subelement([ns |-> ns, text_attr |-> text], Parent(<<>>),
                             "text_attr", "value"),
      ns, "value", "kw", TRUE)

\* C27: the text writer writes a non-empty attribute as it is, and the text
\* reader returns the text of the child without its surrounding whitespace,
\* or nothing when only whitespace is left: what is read back is the
\* attribute exactly when that is a non-empty string without surrounding
\* whitespace; a string of whitespace is written as a child and read back as
\* absent; and a text once read is read back as it is when written again.
C27_TextWriteRead ==
    /\ WrittenThenRead("simple_text_subelement", "text_attr", "subelement_text_kwarg") =>
         LET v == Val(obj).text_attr
         IN  /\ (v # None /\ Val(v) # <<>>) =>
                  /\ Cardinality(Written) = 1
                  /\ \A i \in Written : Val(element).children[i].text = v
                  /\ out = Some(IF Blank(v) THEN Ok(EmptyKw) ELSE Ok("kw" :> StrStrip(Val(v))))
             /\ (v = None \/ v = Some(<<>>)) => element = orig /\ out = Some(Ok(EmptyKw))
             /\ v # None =>
                  (out = Some(Ok("kw" :> Val(v)))
                     <=> (Val(v) # <<>> /\ StrStrip(Val(v)) = Val(v)))
    /\ Reading({"subelement_text_kwarg"}) =>
         /\ Val(out).ok
         /\ ReadBack(Last(hist).ns,
                     IF "kw" \in DOMAIN Val(out).val THEN Some(Val(out).val["kw"]) ELSE None)
              = Val(out)

\* C27 witness: the text " f" was written as it is and read back as "f".
C27_Witness ==
    /\ WrittenThenRead("simple_text_subelement", "text_attr", "subelement_text_kwarg")
    /\ Val(obj).text_attr = Some(<<" ", "f">>)
    /\ Last(Val(element).children).text = Some(<<" ", "f">>)
    /\ out = Some(Ok("kw" :> <<"f">>))

\* A string of whitespace was written as a child and read back as absent.
C27_BlankWitness ==
    /\ WrittenThenRead("simple_text_subelement", "text_attr", "subelement_text_kwarg")
    /\ Val(obj).text_attr = Some(<<" ">>)
    /\ Cardinality(Written) = 1
    /\ out = Some(Ok(EmptyKw))

(* ------------------------------------------------------------------ *)
(* C28                                                                 *)
(* ------------------------------------------------------------------ *)

\* The attribute of an overlay that holds the nested record of a class.
AttrOf ==
    [ViewVolume |-> "view_volume", ImagePyramid |-> "image_pyramid",
     LatLonBox |-> "lat_lon_box"]

\* The child of a nested record element that holds a required field.
NodeOf ==
    [left_fov |-> "leftFov", right_fov |-> "rightFov", bottom_fov |-> "bottomFov",
     top_fov |-> "topFov", near |-> "near", tile_size |-> "tileSize",
     max_width |-> "maxWidth", max_height |-> "maxHeight", grid_origin |-> "gridOrigin",
     north |-> "north", south |-> "south", east |-> "east", west |-> "west"]

C28_OtherWitness ==
    /\ Reserialized /\ orig \in PartialElements
    /\ \/ /\ orig.tag[2] = "GroundOverlay"
          /\ Val(obj).lat_lon_box # None
          /\ Val(Val(obj).lat_lon_box).east = Some(15)
          /\ Val(Val(obj).lat_lon_box).west = None
          /\ ~Emits(Val(element), "LatLonBox")
       \/ /\ orig.tag[2] = "PhotoOverlay"
          /\ Val(obj).image_pyramid # None
          /\ Val(Val(obj).image_pyramid).max_height = Some(3)
          /\ ~Emits(Val(element), "ImagePyramid")

(* ------------------------------------------------------------------ *)
(* C29                                                                 *)
(* ------------------------------------------------------------------ *)

\* The nested records of an entity that are present.
PresentNested(o) ==
    {a \in NestedAttrs \cap DOMAIN o : o[a] # None /\ Obj_bool(Val(o[a]))}

C29_SameWitness ==
    /\ RoundTripped
    /\ orig.kind = "PhotoOverlay" /\ orig.ns = "{gx}"
    /\ "view_volume" \in PresentNested(orig)
    /\ Val(orig.view_volume).ns = "{gx}"
    /\ Val(out).ok
    /\ Val(out).val.view_volume # None

====
